---- MODULE Spec2Model ----
(***************************************************************************)
(* The retry-with-backoff executor of the email service                    *)
(* (src/src/utils/retry.ts) together with the error taxonomy and the       *)
(* retryability predicate it depends on (utils/errors).                    *)
(*                                                                         *)
(* One call of RetryableOperation.execute is modelled as a state machine   *)
(* whose steps are the synchronous segments between two awaits of the      *)
(* async function: the call itself (up to the first await of operation()), *)
(* the settlement of operation() and the firing of the sleep timer.        *)
(*                                                                         *)
(* Strings are TLC strings; durations are integers (milliseconds); the     *)
(* real-valued intermediate results of calculateDelay are exact rationals  *)
(* [n, d] (IEEE rounding error of the doubles is not modelled).            *)
(***************************************************************************)
EXTENDS Integers, Sequences, FiniteSets, TLC

VARIABLES
  config,       \* this.config of the RetryableOperation instance
  context,      \* the context argument of execute
  state,        \* the RetryState of the call: attempt, totalDelay, errors
  pc,           \* where the call is: idle, op (awaiting operation()),
                \* sleep (awaiting the timer), resolved, rejected
  outcomes,     \* what each invocation of operation() settled with, in order
  invocations,  \* how many times operation() has been invoked
  timerCalls,   \* the delays passed to setTimeout, in order
  log,          \* the calls made on the logger, in order
  returned,     \* the value execute resolved with
  thrown,       \* the value execute rejected with
  failure,      \* the value a catch block of the service or of the
                \* transport has caught
  classified,   \* the classifications made of it, in order: the classifier,
                \* its arguments and the error it returned
  calls,        \* the execute calls in flight on one instance, by call
  isRetryable,  \* what isRetryableError returned for the caught failure
  service       \* the EmailServiceImplementation instance and the call of
                \* a public method in flight on it

vars ==
  << config, context, state, pc, outcomes, invocations, timerCalls, log,
     returned, thrown, failure, classified, calls, isRetryable, service >>

----------------------------------------------------------------------------
(* Bounds of the model.                                                    *)

\* Largest maxAttempts of the generated family of small policies.
MaxAttempts == 3

----------------------------------------------------------------------------
(* Strings.                                                                *)

UpperCase == "ABCDEFGHIJKLMNOPQRSTUVWXYZ"
LowerCase == "abcdefghijklmnopqrstuvwxyz"

\* One character, lower-cased (String.prototype.toLowerCase, ASCII part).
LowerChar(c) ==
  IF \E i \in 1..Len(UpperCase) : SubSeq(UpperCase, i, i) = c
  THEN LET i == CHOOSE j \in 1..Len(UpperCase) : SubSeq(UpperCase, j, j) = c
       IN  SubSeq(LowerCase, i, i)
  ELSE c

RECURSIVE toLowerCase(_)
toLowerCase(s) ==
  IF Len(s) = 0 THEN ""
  ELSE LowerChar(SubSeq(s, 1, 1)) \o toLowerCase(SubSeq(s, 2, Len(s)))

\* String.prototype.includes: sub occurs in s as a contiguous substring.
includes(s, sub) ==
  \E i \in 1..(Len(s) - Len(sub) + 1) : SubSeq(s, i, i + Len(sub) - 1) = sub

\* Template-literal interpolation of a number.
NumToString(n) == ToString(n)

----------------------------------------------------------------------------
(* Object literals with string keys: a function from keys to values.       *)
(* undefined (an absent context) is the empty object: spreading undefined  *)
(* contributes no key.                                                     *)

EmptyObject == << >>

\* A spread in which the first object's value stays where both have the
\* key.
Spread_firstWins(a, b) ==
  [k \in (DOMAIN a) \cup (DOMAIN b) |-> IF k \in DOMAIN a THEN a[k] ELSE b[k]]

\* { ...a, ...b }: the keys of both, b's value where both have the key.
Spread(a, b) ==
  [k \in (DOMAIN a) \cup (DOMAIN b) |-> IF k \in DOMAIN b THEN b[k] ELSE a[k]]

----------------------------------------------------------------------------
(* Exact rationals for the arithmetic of calculateDelay.                   *)

Rat(n, d) == [n |-> n, d |-> d]
RMul(a, b) == Rat(a.n * b.n, a.d * b.d)
RAdd(a, b) == Rat(a.n * b.d + b.n * a.d, a.d * b.d)
RSub(a, b) == Rat(a.n * b.d - b.n * a.d, a.d * b.d)
RLeq(a, b) == a.n * b.d <= b.n * a.d
RMin(a, b) == IF RLeq(a, b) THEN a ELSE b

RECURSIVE RPow(_, _)
RPow(a, e) == IF e = 0 THEN Rat(1, 1) ELSE RMul(a, RPow(a, e - 1))

\* Math.round: the nearest integer, halves towards +infinity: floor(x + 1/2).
\* The floor of a negative quotient is taken explicitly.
FloorDiv(n, d) ==
  IF n >= 0 THEN n \div d
  ELSE -(((-n) + d - 1) \div d)

MathRound(x) == FloorDiv(2 * x.n + x.d, 2 * x.d)

MathMax(a, b) == IF a >= b THEN a ELSE b

----------------------------------------------------------------------------
(* The error taxonomy (utils/errors).                                      *)

\* The concrete subclasses of EmailError: the readonly code and retryable
\* fields each class declares.
EmailErrorClasses ==
  [ SMTPConfigurationError  |-> [code |-> "SMTP_CONFIG_ERROR",      retryable |-> FALSE],
    SMTPConnectionError     |-> [code |-> "SMTP_CONNECTION_ERROR",  retryable |-> TRUE],
    SMTPAuthenticationError |-> [code |-> "SMTP_AUTH_ERROR",        retryable |-> FALSE],
    EmailValidationError    |-> [code |-> "EMAIL_VALIDATION_ERROR", retryable |-> FALSE],
    TemplateNotFoundError   |-> [code |-> "TEMPLATE_NOT_FOUND",     retryable |-> FALSE],
    TemplateRenderError     |-> [code |-> "TEMPLATE_RENDER_ERROR",  retryable |-> FALSE],
    EmailSendError          |-> [code |-> "EMAIL_SEND_ERROR",       retryable |-> TRUE],
    RateLimitError          |-> [code |-> "RATE_LIMIT_ERROR",       retryable |-> TRUE],
    AttachmentError         |-> [code |-> "ATTACHMENT_ERROR",       retryable |-> FALSE] ]

\* undefined, where an Error object could stand (no cause; the rejection value of
\* the fall-through throw).
Undefined == [kind |-> "undefined"]

\* new Error(message): a generic error, with no code, cause or context.
NewError(message) == [kind |-> "Error", message |-> message]

\* new ErrorClass(message, cause, context) for a subclass of EmailError:
\* the constructor of EmailError stores its three arguments, the class supplies
\* code and retryable, name is the class name.
NewEmailError(class, message, cause, ctx) ==
  [ kind      |-> "EmailError",
    name      |-> class,
    code      |-> EmailErrorClasses[class].code,
    retryable |-> EmailErrorClasses[class].retryable,
    message   |-> message,
    cause     |-> cause,
    context   |-> ctx ]

\* A value that is not an Error object: a string, a number, null or a plain
\* object, whose properties are values; undefined is Undefined.
StringValue(s) == [kind |-> "value", type |-> "string", string |-> s]
NumberValue(n) == [kind |-> "value", type |-> "number", number |-> n]
Null == [kind |-> "value", type |-> "null"]
PlainObject(props) == [kind |-> "value", type |-> "object", props |-> props]

\* error instanceof Error / error instanceof EmailError
InstanceOfError(e) == e.kind \in {"Error", "EmailError"}
InstanceOfEmailError(e) == e.kind = "EmailError"

\* typeof value
typeof(v) ==
  IF v.kind \in {"Error", "EmailError"} THEN "object"
  ELSE IF v.kind = "undefined" THEN "undefined"
  ELSE IF v.type = "null" THEN "object"
  ELSE v.type

\* !value is false: the value is truthy.
Truthy(v) ==
  IF v.kind \in {"Error", "EmailError"} THEN TRUE
  ELSE IF v.kind = "undefined" THEN FALSE
  ELSE IF v.type = "null" THEN FALSE
  ELSE IF v.type = "string" THEN v.string # ""
  ELSE IF v.type = "number" THEN v.number # 0
  ELSE TRUE

\* key in value, for an object, and value[key]; an Error has a message.
In(key, v) ==
  IF v.kind \in {"Error", "EmailError"} THEN key = "message"
  ELSE key \in DOMAIN v.props

Property(v, key) ==
  IF v.kind \in {"Error", "EmailError"} THEN StringValue(v.message)
  ELSE v.props[key]

\* The transient signatures without "timeout".
transientMessages_withoutTimeout ==
  { "ETIMEDOUT", "ECONNRESET", "ENOTFOUND", "ECONNREFUSED", "network" }

\* Known transient nodemailer errors.
transientMessages ==
  { "ETIMEDOUT", "ECONNRESET", "ENOTFOUND", "ECONNREFUSED", "timeout", "network" }

\* isRetryableError that takes every generic Error for retryable, as the
\* default category of the classifier is.
isRetryableError_genericRetryable(error) ==
  IF InstanceOfEmailError(error) THEN error.retryable
  ELSE InstanceOfError(error)

\* isRetryableError that looks for a transient signature in the message of
\* every Error, classified or not, before it looks at the retryable flag.
isRetryableError_signatureFirst(error) ==
  IF InstanceOfError(error)
       /\ \E msg \in transientMessages :
            includes(toLowerCase(error.message), toLowerCase(msg))
  THEN TRUE
  ELSE IF InstanceOfEmailError(error) THEN error.retryable
  ELSE FALSE

isRetryableError(error) ==
  IF InstanceOfEmailError(error) THEN error.retryable
  ELSE IF ~Truthy(error) \/ typeof(error) # "object" \/ ~In("message", error)
  THEN FALSE
  ELSE IF typeof(Property(error, "message")) # "string" THEN FALSE
  ELSE LET message == Property(error, "message").string
       IN  \E msg \in transientMessages :
             includes(toLowerCase(message), toLowerCase(msg))

----------------------------------------------------------------------------
(* Retry policies (utils/retry).                                           *)

DEFAULT_RETRY_CONFIG ==
  [ maxAttempts |-> 3, initialDelay |-> 1000, maxDelay |-> 30000,
    backoffMultiplier |-> Rat(2, 1), jitter |-> TRUE ]

RetryConfigs ==
  [ smtp |->
      [ maxAttempts |-> 3, initialDelay |-> 2000, maxDelay |-> 10000,
        backoffMultiplier |-> Rat(2, 1), jitter |-> TRUE ],
    template |->
      [ maxAttempts |-> 2, initialDelay |-> 500, maxDelay |-> 2000,
        backoffMultiplier |-> Rat(2, 1), jitter |-> FALSE ],
    connection |->
      [ maxAttempts |-> 5, initialDelay |-> 1000, maxDelay |-> 30000,
        backoffMultiplier |-> Rat(3, 2), jitter |-> TRUE ] ]

\* The values Math.random() is taken to return: both ends of [0, 1) and the
\* middle, as exact rationals.
RandomDraws == { Rat(0, 1), Rat(1, 2), Rat(19, 20) }

\* calculateDelay with the exponent attempt instead of attempt - 1.
calculateDelay_exponentOffByOne(cfg, attempt, random) ==
  LET raw    == RMul(Rat(cfg.initialDelay, 1),
                     RPow(cfg.backoffMultiplier, attempt))
      capped == RMin(raw, Rat(cfg.maxDelay, 1))
      jitterRange == RMul(capped, Rat(1, 10))
      jitter == RMul(RMul(RSub(random, Rat(1, 2)), Rat(2, 1)), jitterRange)
      delay  == IF cfg.jitter THEN RAdd(capped, jitter) ELSE capped
  IN  MathMax(0, MathRound(delay))

\* calculateDelay with a jitter range of 20%.
calculateDelay_wideJitter(cfg, attempt, random) ==
  LET raw    == RMul(Rat(cfg.initialDelay, 1),
                     RPow(cfg.backoffMultiplier, attempt - 1))
      capped == RMin(raw, Rat(cfg.maxDelay, 1))
      jitterRange == RMul(capped, Rat(2, 10))
      jitter == RMul(RMul(RSub(random, Rat(1, 2)), Rat(2, 1)), jitterRange)
      delay  == IF cfg.jitter THEN RAdd(capped, jitter) ELSE capped
  IN  MathMax(0, MathRound(delay))

calculateDelay(cfg, attempt, random) ==
  LET raw    == RMul(Rat(cfg.initialDelay, 1),
                     RPow(cfg.backoffMultiplier, attempt - 1))
      capped == RMin(raw, Rat(cfg.maxDelay, 1))
      jitterRange == RMul(capped, Rat(1, 10))
      jitter == RMul(RMul(RSub(random, Rat(1, 2)), Rat(2, 1)), jitterRange)
      delay  == IF cfg.jitter THEN RAdd(capped, jitter) ELSE capped
  IN  MathMax(0, MathRound(delay))

----------------------------------------------------------------------------
(* The inputs of a call: the policy of the instance, the caller's context  *)
(* and what operation() settles with at each invocation.                   *)

\* Small policies: every maxAttempts from 0 (which the constructor accepts)
\* to MaxAttempts, with delays small enough that rounding shows, a capped
\* growth, an integer and a fractional multiplier, jitter on and off.
SmallPolicies ==
  { [ maxAttempts |-> n, initialDelay |-> sh[1], maxDelay |-> 10,
      backoffMultiplier |-> sh[2], jitter |-> sh[3] ] :
      n \in 0..MaxAttempts,
      sh \in { <<6, Rat(2, 1), TRUE>>, <<5, Rat(3, 2), FALSE>>,
               <<6, Rat(3, 2), TRUE>> } }

\* The policies of the repository and of its retry tests.
NamedPolicies ==
  { DEFAULT_RETRY_CONFIG, RetryConfigs.smtp, RetryConfigs.template,
    [ maxAttempts |-> 5, initialDelay |-> 100, maxDelay |-> 1000,
      backoffMultiplier |-> Rat(2, 1), jitter |-> FALSE ],
    [ maxAttempts |-> 2, initialDelay |-> 10, maxDelay |-> 50,
      backoffMultiplier |-> Rat(2, 1), jitter |-> FALSE ],
    [ maxAttempts |-> 3, initialDelay |-> 5000, maxDelay |-> 8000,
      backoffMultiplier |-> Rat(2, 1), jitter |-> FALSE ] }

Policies == SmallPolicies \cup NamedPolicies

\* The context argument: absent, as the callers of the repository pass it,
\* and one that names keys the executor also writes.
CallerContexts ==
  { EmptyObject,
    [ operation |-> "send-email" ],
    [ operation |-> "sendTemplateEmail", code |-> "caller", attempts |-> 99,
      attempt |-> 98, totalDelay |-> 97 ] }

\* What operation() may resolve with.
Values == { "success", "sent" }

\* What operation() may reject with.
ConnectionFailed ==
  NewEmailError("SMTPConnectionError", "Connection failed: ETIMEDOUT",
                NewError("ETIMEDOUT"), EmptyObject)

\* The error an inner execute (the transport's own retry) has raised.
InnerRetryFailed ==
  NewEmailError("SMTPConnectionError",
                "Operation failed after 2 attempts: Connection failed: ETIMEDOUT",
                ConnectionFailed,
                [ attempts |-> 2,
                  allErrors |-> << "Connection failed: ETIMEDOUT",
                                   "Connection failed: ETIMEDOUT" >>,
                  operation |-> "sendMail" ])

AuthFailed ==
  NewEmailError("SMTPAuthenticationError", "SMTP error", Undefined,
                [ code |-> "SMTP001" ])

RenderTimeout ==
  NewEmailError("TemplateRenderError", "Render timeout", Undefined,
                [ operation |-> "render" ])

Throwables ==
  { ConnectionFailed, InnerRetryFailed, AuthFailed, RenderTimeout,
    NewError("connect ETIMEDOUT"), NewError("random failure"),
    StringValue("Network down"), StringValue("string error") }

----------------------------------------------------------------------------
(* RetryableOperation.execute.                                             *)

\* A call on the logger: level, message, the key-value mapping and, for
\* warn, the error passed as third argument.
LogCall(level, message, meta, error) ==
  [ level |-> level, message |-> message, meta |-> meta, error |-> error ]

\* String that gives the empty string for null and undefined.
String_emptyOfNullish(e) ==
  IF e.kind = "undefined" THEN ""
  ELSE IF e.type = "string" THEN e.string
  ELSE IF e.type = "number" THEN NumToString(e.number)
  ELSE IF e.type = "null" THEN ""
  ELSE "[object Object]"

\* String(value) of a value that is not an Error; a plain object has the
\* toString of Object.prototype.
String(e) ==
  IF e.kind = "undefined" THEN "undefined"
  ELSE IF e.type = "string" THEN e.string
  ELSE IF e.type = "number" THEN NumToString(e.number)
  ELSE IF e.type = "null" THEN "null"
  ELSE "[object Object]"

----------------------------------------------------------------------------
(* The two classifiers: wrapError of utils/errors and categorizeSmtpError  *)
(* of the nodemailer transport. context is Undefined when the caller       *)
(* passes none.                                                            *)

\* wrapError without the test for an EmailError: a classified error is
\* classified again by its message.
wrapError_rewrapsClassified(error, ctx) ==
  IF InstanceOfError(error)
  THEN LET message == toLowerCase(error.message)
       IN  IF includes(message, "auth")
           THEN NewEmailError("SMTPAuthenticationError",
                  "Authentication failed: " \o error.message, error, ctx)
           ELSE IF includes(message, "connect")
           THEN NewEmailError("SMTPConnectionError",
                  "Connection failed: " \o error.message, error, ctx)
           ELSE NewEmailError("EmailSendError",
                  "Email operation failed: " \o error.message, error, ctx)
  ELSE NewEmailError("EmailSendError",
         "Unknown error occurred: " \o String(error), Undefined, ctx)

\* wrapError that tests the connection keyword before the authentication
\* keyword.
wrapError_connectBeforeAuth(error, ctx) ==
  IF InstanceOfEmailError(error) THEN error
  ELSE IF InstanceOfError(error)
  THEN LET message == toLowerCase(error.message)
       IN  IF includes(message, "connect")
           THEN NewEmailError("SMTPConnectionError",
                  "Connection failed: " \o error.message, error, ctx)
           ELSE IF includes(message, "auth")
           THEN NewEmailError("SMTPAuthenticationError",
                  "Authentication failed: " \o error.message, error, ctx)
           ELSE NewEmailError("EmailSendError",
                  "Email operation failed: " \o error.message, error, ctx)
  ELSE NewEmailError("EmailSendError",
         "Unknown error occurred: " \o String(error), Undefined, ctx)

\* wrapError whose connection keyword is "conn".
wrapError_matchesConn(error, ctx) ==
  IF InstanceOfEmailError(error) THEN error
  ELSE IF InstanceOfError(error)
  THEN LET message == toLowerCase(error.message)
       IN  IF includes(message, "auth")
           THEN NewEmailError("SMTPAuthenticationError",
                  "Authentication failed: " \o error.message, error, ctx)
           ELSE IF includes(message, "conn")
           THEN NewEmailError("SMTPConnectionError",
                  "Connection failed: " \o error.message, error, ctx)
           ELSE NewEmailError("EmailSendError",
                  "Email operation failed: " \o error.message, error, ctx)
  ELSE NewEmailError("EmailSendError",
         "Unknown error occurred: " \o String(error), Undefined, ctx)

\* wrapError whose default category keeps the message of the error as it is
\* and takes the error's cause for its own.
wrapError_defaultUnprefixed(error, ctx) ==
  IF InstanceOfEmailError(error) THEN error
  ELSE IF InstanceOfError(error)
  THEN LET message == toLowerCase(error.message)
       IN  IF includes(message, "auth")
           THEN NewEmailError("SMTPAuthenticationError",
                  "Authentication failed: " \o error.message, error, ctx)
           ELSE IF includes(message, "connect")
           THEN NewEmailError("SMTPConnectionError",
                  "Connection failed: " \o error.message, error, ctx)
           ELSE NewEmailError("EmailSendError", error.message, Undefined, ctx)
  ELSE NewEmailError("EmailSendError",
         "Unknown error occurred: " \o String(error), Undefined, ctx)

\* wrapError(error, context)
wrapError(error, ctx) ==
  IF InstanceOfEmailError(error) THEN error
  ELSE IF InstanceOfError(error)
  THEN LET message == toLowerCase(error.message)
       IN  IF includes(message, "auth")
           THEN NewEmailError("SMTPAuthenticationError",
                  "Authentication failed: " \o error.message, error, ctx)
           ELSE IF includes(message, "connect")
           THEN NewEmailError("SMTPConnectionError",
                  "Connection failed: " \o error.message, error, ctx)
           ELSE NewEmailError("EmailSendError",
                  "Email operation failed: " \o error.message, error, ctx)
  ELSE NewEmailError("EmailSendError",
         "Unknown error occurred: " \o String(error), Undefined, ctx)

\* categorizeSmtpError whose connection rule knows "connect" only.
categorizeSmtpError_connectOnly(error, ctx) ==
  IF ~InstanceOfError(error)
  THEN NewEmailError("EmailSendError",
         "Unknown SMTP error: " \o String(error), Undefined, ctx)
  ELSE LET message == toLowerCase(error.message)
       IN  IF \/ includes(message, "auth")
              \/ includes(message, "login")
              \/ includes(message, "password")
           THEN NewEmailError("SMTPAuthenticationError",
                  "SMTP authentication failed: " \o error.message, error, ctx)
           ELSE IF includes(message, "connect")
           THEN NewEmailError("SMTPConnectionError",
                  "SMTP connection failed: " \o error.message, error, ctx)
           ELSE NewEmailError("EmailSendError",
                  "SMTP send failed: " \o error.message, error, ctx)

\* NodemailerTransport.categorizeSmtpError(error, context): it has no test
\* for an EmailError, which is an Error to it.
categorizeSmtpError(error, ctx) ==
  IF ~InstanceOfError(error)
  THEN NewEmailError("EmailSendError",
         "Unknown SMTP error: " \o String(error), Undefined, ctx)
  ELSE LET message == toLowerCase(error.message)
       IN  IF \/ includes(message, "auth")
              \/ includes(message, "login")
              \/ includes(message, "password")
           THEN NewEmailError("SMTPAuthenticationError",
                  "SMTP authentication failed: " \o error.message, error, ctx)
           ELSE IF \/ includes(message, "connect")
                   \/ includes(message, "timeout")
                   \/ includes(message, "enotfound")
           THEN NewEmailError("SMTPConnectionError",
                  "SMTP connection failed: " \o error.message, error, ctx)
           ELSE NewEmailError("EmailSendError",
                  "SMTP send failed: " \o error.message, error, ctx)

----------------------------------------------------------------------------
\* error instanceof Error ? error : new Error(String(error))
WrappedError(error) ==
  IF InstanceOfError(error) THEN error ELSE NewError(String(error))

\* ShouldRetry without the retryability test.
ShouldRetry_ignoresRetryable(cfg, st, wrappedError) ==
  st.attempt < cfg.maxAttempts

\* ShouldRetry without the test for the last attempt.
ShouldRetry_ignoresLastAttempt(cfg, st, wrappedError) ==
  isRetryableError(wrappedError)

\* ShouldRetry that takes attempt maxAttempts + 1 for the last one.
ShouldRetry_lastAttemptOffByOne(cfg, st, wrappedError) ==
  LET isLastAttempt == st.attempt > cfg.maxAttempts
  IN  ~isLastAttempt /\ isRetryableError(wrappedError)

\* !isLastAttempt && isRetryableError(wrappedError)
ShouldRetry(cfg, st, wrappedError) ==
  LET isLastAttempt == st.attempt >= cfg.maxAttempts
  IN  ~isLastAttempt /\ isRetryableError(wrappedError)

\* state.errors.map((e) => e.message)
AllErrors(st) == [i \in 1..Len(st.errors) |-> st.errors[i].message]

\* RetryContext with the caller's context spread last.
RetryContext_callerWins(st, ctx, error) ==
  Spread(Spread([attempts |-> st.attempt, allErrors |-> AllErrors(st)],
                error.context), ctx)

\* { attempts, allErrors, ...context, ...error.context }
RetryContext(st, ctx, error) ==
  Spread(Spread([attempts |-> st.attempt, allErrors |-> AllErrors(st)], ctx),
         error.context)

\* RetryMessage counting the retries instead of the attempts.
RetryMessage_countsRetries(st, error) ==
  "Operation failed after " \o NumToString(st.attempt - 1) \o " attempts: "
    \o error.message

\* `Operation failed after ${state.attempt} attempts: ${error.message}`
RetryMessage(st, error) ==
  "Operation failed after " \o NumToString(st.attempt) \o " attempts: "
    \o error.message

\* FinalError that gives a failure that is no EmailError the attempt context
\* too, wrapped in an EmailSendError.
FinalError_enrichesRaw(st, ctx, error) ==
  IF InstanceOfEmailError(error)
  THEN NewEmailError(error.name, RetryMessage(st, error), error,
                     RetryContext(st, ctx, error))
  ELSE NewEmailError("EmailSendError",
                     RetryMessage(st, WrappedError(error)), WrappedError(error),
                     Spread([attempts |-> st.attempt,
                             allErrors |-> AllErrors(st)], ctx))

\* What the call throws when it does not retry: a new instance of the class
\* of an EmailError, the wrapped error otherwise.
FinalError(st, ctx, error) ==
  IF InstanceOfEmailError(error)
  THEN NewEmailError(error.name, RetryMessage(st, error), error,
                     RetryContext(st, ctx, error))
  ELSE WrappedError(error)

\* RecoveredAfterRetry true from the first attempt on.
RecoveredAfterRetry_fromFirstAttempt(st) == st.attempt >= 1

\* RecoveredAfterRetry true from the third attempt on only.
RecoveredAfterRetry_fromThirdAttempt(st) == st.attempt > 2

\* state.attempt > 1: the success follows at least one retry.
RecoveredAfterRetry(st) == st.attempt > 1

\* The head of the loop, run by the call and again after each sleep: the
\* while test, then the next attempt up to the await of operation(), or the
\* throw after the loop.
LoopHead(st, ctx) ==
  IF st.attempt < config.maxAttempts
  THEN /\ state' = [st EXCEPT !.attempt = @ + 1]
       /\ log' = Append(log,
            LogCall("debug", "Executing operation",
                    Spread([attempt |-> st.attempt + 1,
                            maxAttempts |-> config.maxAttempts], ctx),
                    Undefined))
       /\ invocations' = invocations + 1
       /\ pc' = "op"
       /\ UNCHANGED thrown
  ELSE /\ state' = st
       /\ thrown' = IF Len(st.errors) = 0 THEN Undefined
                    ELSE st.errors[Len(st.errors)]
       /\ pc' = "rejected"
       /\ UNCHANGED << log, invocations >>

\* execute(operation, context) is called.
Execute(ctx) ==
  /\ pc = "idle"
  /\ context' = ctx
  /\ LoopHead([attempt |-> 0, totalDelay |-> 0, errors |-> << >>], ctx)
  /\ UNCHANGED << config, outcomes, timerCalls, returned >>
  /\ UNCHANGED << failure, classified, calls, isRetryable, service >>

\* operation() resolves with value.
OperationResolves(value) ==
  /\ pc = "op"
  /\ outcomes' = Append(outcomes, [ok |-> TRUE, value |-> value])
  /\ log' = IF RecoveredAfterRetry(state)
            THEN Append(log,
                   LogCall("info", "Operation succeeded after retry",
                           Spread([attempt |-> state.attempt,
                                   totalDelay |-> state.totalDelay], context),
                           Undefined))
            ELSE log
  /\ returned' = [kind |-> "value", value |-> value]
  /\ pc' = "resolved"
  /\ UNCHANGED << config, context, state, invocations, timerCalls, thrown >>
  /\ UNCHANGED << failure, classified, calls, isRetryable, service >>

\* OperationRejects that sets the timer of sleep(delay) but does not await it:
\* the loop goes on to the next attempt in the same step.
OperationRejects_sleepNotAwaited(error, random) ==
  /\ pc = "op"
  /\ LET wrappedError == WrappedError(error)
         st == [state EXCEPT !.errors = Append(@, wrappedError)]
         shouldRetry == ShouldRetry(config, st, wrappedError)
         delay == calculateDelay(config, st.attempt, random)
     IN  /\ outcomes' = Append(outcomes, [ok |-> FALSE, error |-> error])
         /\ IF ~shouldRetry
            THEN /\ random = Rat(1, 2)
                 /\ state' = st
                 /\ thrown' = FinalError(st, context, error)
                 /\ pc' = "rejected"
                 /\ UNCHANGED << timerCalls, log, invocations >>
            ELSE /\ (~config.jitter => random = Rat(1, 2))
                 /\ timerCalls' = Append(timerCalls, delay)
                 /\ LoopHead([st EXCEPT !.totalDelay = @ + delay], context)
  /\ UNCHANGED << config, context, returned >>
  /\ UNCHANGED << failure, classified, calls, isRetryable, service >>

\* operation() rejects with error; random is what Math.random() returns if
\* calculateDelay draws it.
OperationRejects(error, random) ==
  /\ pc = "op"
  /\ LET wrappedError == WrappedError(error)
         st == [state EXCEPT !.errors = Append(@, wrappedError)]
         shouldRetry == ShouldRetry(config, st, wrappedError)
         warned == Append(log,
           LogCall("warn", "Operation failed",
                   Spread([attempt |-> st.attempt,
                           maxAttempts |-> config.maxAttempts,
                           willRetry |-> shouldRetry,
                           error |-> wrappedError.message], context),
                   wrappedError))
         delay == calculateDelay(config, st.attempt, random)
     IN  /\ outcomes' = Append(outcomes, [ok |-> FALSE, error |-> error])
         /\ IF ~shouldRetry
            THEN /\ random = Rat(1, 2)
                 /\ state' = st
                 /\ log' = warned
                 /\ thrown' = FinalError(st, context, error)
                 /\ pc' = "rejected"
                 /\ UNCHANGED timerCalls
            ELSE /\ (~config.jitter => random = Rat(1, 2))
                 /\ state' = [st EXCEPT !.totalDelay = @ + delay]
                 /\ log' = Append(warned,
                      LogCall("debug", "Waiting before retry",
                              Spread([delay |-> NumToString(delay) \o "ms",
                                      nextAttempt |-> st.attempt + 1], context),
                              Undefined))
                 /\ timerCalls' = Append(timerCalls, delay)
                 /\ pc' = "sleep"
                 /\ UNCHANGED thrown
  /\ UNCHANGED << config, context, invocations, returned >>
  /\ UNCHANGED << failure, classified, calls, isRetryable, service >>

\* The timer of sleep(delay) fires: the loop continues.
TimerFires ==
  /\ pc = "sleep"
  /\ LoopHead(state, context)
  /\ UNCHANGED << config, context, outcomes, timerCalls, returned >>
  /\ UNCHANGED << failure, classified, calls, isRetryable, service >>

----------------------------------------------------------------------------

\* No value yet: execute has not settled that way.
None == [kind |-> "none"]

\* After new RetryableOperation(config), before execute is called.

\* No call has been made on the instance.
NoCall ==
  /\ context = EmptyObject
  /\ state = [attempt |-> 0, totalDelay |-> 0, errors |-> << >>]
  /\ pc = "idle"
  /\ outcomes = << >>
  /\ invocations = 0
  /\ timerCalls = << >>
  /\ log = << >>
  /\ returned = None
  /\ thrown = None

\* One execute call on an instance of any policy; nothing is caught by a
\* catch block and no other call is made.
Init ==
  /\ config \in Policies
  /\ NoCall
  /\ failure = None
  /\ classified = << >>
  /\ calls = << >>
  /\ isRetryable = None
  /\ service = << >>

Next ==
  \/ \E ctx \in CallerContexts : Execute(ctx)
  \/ \E value \in Values : OperationResolves(value)
  \/ \E error \in Throwables, random \in RandomDraws :
       OperationRejects(error, random)
  \/ TimerFires

Spec == Init /\ [][Next]_vars

\* The promise of operation() settles.
OperationSettles ==
  \/ \E value \in Values : OperationResolves(value)
  \/ \E error \in Throwables, random \in RandomDraws :
       OperationRejects(error, random)

\* The call under an operation whose every invocation settles and a timer
\* that fires.
SpecLive == Spec /\ WF_vars(OperationSettles) /\ WF_vars(TimerFires)

----------------------------------------------------------------------------
(* The classification of a caught failure: the catch block of              *)
(* NodemailerTransport.sendMail classifies what the send threw with        *)
(* categorizeSmtpError, the catch blocks of the service classify what      *)
(* reaches them, the transport's error included, with wrapError.           *)

\* How many classifications of one failure are followed.
MaxClassifications == 2

\* The keywords of the two classifiers.
AuthKeywords == { "auth", "login", "password" }
ConnectKeywords == { "connect", "timeout", "enotfound" }

\* Messages of generic errors: each keyword in lower and in upper case,
\* alone and inside a sentence, and messages of the tests and of nodemailer.
ClassifierMessages ==
  { pre \o kw \o post :
      pre \in { "", "SMTP " },
      kw \in AuthKeywords \cup ConnectKeywords
               \cup { "AUTH", "LOGIN", "PASSWORD",
                      "CONNECT", "TIMEOUT", "ENOTFOUND" },
      post \in { "", " failed" } }
  \cup { "Invalid login: 535 Authentication failed",
         "Login failed with auth timeout",
         "Cannot connect: invalid password",
         "connect: auth failed",
         "Login timeout",
         "connect ECONNREFUSED",
         "connect ETIMEDOUT",
         "getaddrinfo ENOTFOUND smtp.example.com",
         "ECONNREFUSED",
         "ECONNRESET",
         "Connection timeout",
         "auth failed",
         "unexpected",
         "random failure",
         "Something went wrong",
         "" }

\* The context argument of a classifier.
ClassifierContexts ==
  { Undefined,
    [ operation |-> "sendEmail" ],
    [ operation |-> "sendMail", transport |-> "nodemailer" ] }

\* A classified error of each class, whose message holds a keyword of
\* another category.
ClassifiedOfEachClass ==
  { NewEmailError(class, "connect: auth limit", NewError("login"),
                  [ operation |-> "earlier" ]) :
      class \in DOMAIN EmailErrorClasses }

\* Values that are not Error objects: those of the tests of the errors
\* module, and objects with a message.
NonErrorValues ==
  { StringValue("Something went wrong"), StringValue("timeout"),
    StringValue(""), NumberValue(500), NumberValue(123), NumberValue(0),
    Null, Undefined,
    PlainObject(<< >>),
    PlainObject([ name |-> StringValue("CustomError") ]),
    PlainObject([ code |-> StringValue("UNKNOWN"),
                  message |-> StringValue("Something failed") ]),
    PlainObject([ message |-> StringValue("Network unreachable") ]),
    PlainObject([ message |-> NumberValue(504) ]) }

\* What a catch block may catch.
Caught ==
  { NewError(m) : m \in ClassifierMessages }
    \cup ClassifiedOfEachClass \cup Throwables \cup NonErrorValues

\* The error the next classifier is given: the caught failure, or the error
\* the last classifier returned.
Propagated ==
  IF classified = << >> THEN failure
  ELSE classified[Len(classified)].result

\* One classification: the classifier, its arguments and what it returned.
Classification(by, error, ctx, result) ==
  [ by |-> by, error |-> error, context |-> ctx, result |-> result ]

\* A catch block of the service: wrapError(error, context), the error
\* logged and thrown on.
WrapError(ctx) ==
  /\ failure # None
  /\ Len(classified) < MaxClassifications
  /\ LET wrappedError == wrapError(Propagated, ctx)
     IN  /\ classified' = Append(classified,
              Classification("wrapError", Propagated, ctx, wrappedError))
         /\ log' = Append(log,
              LogCall("error", "Failed to send template email", ctx,
                      wrappedError))
  /\ UNCHANGED << config, context, state, pc, outcomes, invocations,
                  timerCalls, returned, thrown, failure, calls, isRetryable,
                  service >>

\* The catch block of NodemailerTransport.sendMail: the failure of the send
\* is classified by categorizeSmtpError(error, context), logged and thrown
\* on.
CategorizeSmtpError(ctx) ==
  /\ failure # None
  /\ classified = << >>
  /\ LET wrappedError == categorizeSmtpError(failure, ctx)
     IN  /\ classified' = << Classification("categorizeSmtpError", failure,
                                            ctx, wrappedError) >>
         /\ log' = Append(log,
              LogCall("error", "SMTP send failed", ctx, wrappedError))
  /\ UNCHANGED << config, context, state, pc, outcomes, invocations,
                  timerCalls, returned, thrown, failure, calls, isRetryable,
                  service >>

\* true or false, as a result.
Boolean(b) == [kind |-> "boolean", value |-> b]

\* isRetryableError(error) is asked of the caught failure, as the executor
\* asks it of the failure of an attempt.
IsRetryableError ==
  /\ failure # None
  /\ isRetryable = None
  /\ isRetryable' = Boolean(isRetryableError(failure))
  /\ UNCHANGED << config, context, state, pc, outcomes, invocations,
                  timerCalls, log, returned, thrown, failure, classified,
                  calls, service >>

\* A catch block has caught a failure; no execute call is followed.
InitClassify ==
  /\ config = DEFAULT_RETRY_CONFIG
  /\ NoCall
  /\ failure \in Caught
  /\ classified = << >>
  /\ calls = << >>
  /\ isRetryable = None
  /\ service = << >>

NextClassify ==
  \/ \E ctx \in ClassifierContexts : WrapError(ctx)
  \/ \E ctx \in ClassifierContexts : CategorizeSmtpError(ctx)
  \/ IsRetryableError

SpecClassify == InitClassify /\ [][NextClassify]_vars

----------------------------------------------------------------------------
(* Several execute calls on one RetryableOperation instance: execute is an *)
(* async method, so a call may be made while another is awaiting its       *)
(* operation or its timer, or after another has settled. Each call is a    *)
(* record of what the single call above keeps in variables; log holds the  *)
(* calls it made on the shared logger. The instance's only field is        *)
(* config.                                                                 *)

\* The calls followed.
CallIds == { 1, 2 }

\* const state: RetryState = { attempt: 0, totalDelay: 0, errors: [] }, a
\* local of the call; cs are the calls of the instance, id the new one.
RetryState_sharedByInstance(cs, id) ==
  IF \E other \in CallIds \ {id} : cs[other].pc # "idle"
  THEN cs[CHOOSE other \in CallIds \ {id} : cs[other].pc # "idle"].state
  ELSE [attempt |-> 0, totalDelay |-> 0, errors |-> << >>]

RetryState(cs, id) == [attempt |-> 0, totalDelay |-> 0, errors |-> << >>]

\* A call not yet made.
IdleCall ==
  [ context     |-> EmptyObject,
    state       |-> [attempt |-> 0, totalDelay |-> 0, errors |-> << >>],
    pc          |-> "idle",
    outcomes    |-> << >>,
    invocations |-> 0,
    timerCalls  |-> << >>,
    log         |-> << >>,
    returned    |-> None,
    thrown      |-> None ]

\* The head of the while loop of call c, whose state is st, on an instance
\* of policy cfg.
CallLoopHead(cfg, c, st) ==
  IF st.attempt < cfg.maxAttempts
  THEN [ c EXCEPT
           !.state = [st EXCEPT !.attempt = @ + 1],
           !.log = Append(@,
             LogCall("debug", "Executing operation",
                     Spread([attempt |-> st.attempt + 1,
                             maxAttempts |-> cfg.maxAttempts], c.context),
                     Undefined)),
           !.invocations = @ + 1,
           !.pc = "op" ]
  ELSE [ c EXCEPT
           !.state = st,
           !.thrown = IF Len(st.errors) = 0 THEN Undefined
                      ELSE st.errors[Len(st.errors)],
           !.pc = "rejected" ]

\* operation() of call c resolves with value.
CallResolved(c, value) ==
  [ c EXCEPT
      !.outcomes = Append(@, [ok |-> TRUE, value |-> value]),
      !.log = IF RecoveredAfterRetry(c.state)
              THEN Append(@,
                     LogCall("info", "Operation succeeded after retry",
                             Spread([attempt |-> c.state.attempt,
                                     totalDelay |-> c.state.totalDelay],
                                    c.context),
                             Undefined))
              ELSE @,
      !.returned = [kind |-> "value", value |-> value],
      !.pc = "resolved" ]

\* operation() of call c rejects with error.
CallRejected(cfg, c, error, random) ==
  LET wrappedError == WrappedError(error)
      st == [c.state EXCEPT !.errors = Append(@, wrappedError)]
      shouldRetry == ShouldRetry(cfg, st, wrappedError)
      warned == Append(c.log,
        LogCall("warn", "Operation failed",
                Spread([attempt |-> st.attempt,
                        maxAttempts |-> cfg.maxAttempts,
                        willRetry |-> shouldRetry,
                        error |-> wrappedError.message], c.context),
                wrappedError))
      delay == calculateDelay(cfg, st.attempt, random)
      failed == [c EXCEPT !.outcomes = Append(@, [ok |-> FALSE, error |-> error])]
  IN  IF ~shouldRetry
      THEN [ failed EXCEPT
               !.state = st,
               !.log = warned,
               !.thrown = FinalError(st, c.context, error),
               !.pc = "rejected" ]
      ELSE [ failed EXCEPT
               !.state = [st EXCEPT !.totalDelay = @ + delay],
               !.log = Append(warned,
                 LogCall("debug", "Waiting before retry",
                         Spread([delay |-> NumToString(delay) \o "ms",
                                 nextAttempt |-> st.attempt + 1], c.context),
                         Undefined)),
               !.timerCalls = Append(@, delay),
               !.pc = "sleep" ]

\* The policies of the instance, the contexts and the failures of the calls
\* followed together.
ConcurrentPolicies ==
  { RetryConfigs.template,
    [ maxAttempts |-> 3, initialDelay |-> 6, maxDelay |-> 10,
      backoffMultiplier |-> Rat(3, 2), jitter |-> FALSE ],
    [ maxAttempts |-> 2, initialDelay |-> 6, maxDelay |-> 10,
      backoffMultiplier |-> Rat(2, 1), jitter |-> TRUE ] }

ConcurrentContexts == { EmptyObject, [ operation |-> "send-email" ] }

ConcurrentThrowables ==
  { ConnectionFailed, AuthFailed, NewError("connect ETIMEDOUT"),
    NewError("random failure") }

\* execute(operation, context) is called on the instance: call id begins.
CallExecute(id, ctx) ==
  /\ calls[id].pc = "idle"
  /\ calls' = [calls EXCEPT ![id] =
       CallLoopHead(config, [calls[id] EXCEPT !.context = ctx],
                    RetryState(calls, id))]
  /\ UNCHANGED << config, context, state, pc, outcomes, invocations,
                  timerCalls, log, returned, thrown, failure, classified,
                  isRetryable, service >>

\* operation() of call id resolves.
CallOperationResolves(id, value) ==
  /\ calls[id].pc = "op"
  /\ calls' = [calls EXCEPT ![id] = CallResolved(calls[id], value)]
  /\ UNCHANGED << config, context, state, pc, outcomes, invocations,
                  timerCalls, log, returned, thrown, failure, classified,
                  isRetryable, service >>

\* operation() of call id rejects; random is what Math.random() returns if
\* calculateDelay draws it.
CallOperationRejects(id, error, random) ==
  /\ calls[id].pc = "op"
  /\ (config.jitter
        /\ CallRejected(config, calls[id], error, random).pc = "sleep")
       \/ random = Rat(1, 2)
  /\ calls' = [calls EXCEPT ![id] =
       CallRejected(config, calls[id], error, random)]
  /\ UNCHANGED << config, context, state, pc, outcomes, invocations,
                  timerCalls, log, returned, thrown, failure, classified,
                  isRetryable, service >>

\* The timer of call id fires.
CallTimerFires(id) ==
  /\ calls[id].pc = "sleep"
  /\ calls' = [calls EXCEPT ![id] =
       CallLoopHead(config, calls[id], calls[id].state)]
  /\ UNCHANGED << config, context, state, pc, outcomes, invocations,
                  timerCalls, log, returned, thrown, failure, classified,
                  isRetryable, service >>

\* An instance on which no call has been made yet.
InitConcurrent ==
  /\ config \in ConcurrentPolicies
  /\ NoCall
  /\ failure = None
  /\ classified = << >>
  /\ calls = [id \in CallIds |-> IdleCall]
  /\ isRetryable = None
  /\ service = << >>

NextConcurrent ==
  \/ \E id \in CallIds, ctx \in ConcurrentContexts : CallExecute(id, ctx)
  \/ \E id \in CallIds, value \in Values : CallOperationResolves(id, value)
  \/ \E id \in CallIds, error \in ConcurrentThrowables,
          random \in RandomDraws :
       CallOperationRejects(id, error, random)
  \/ \E id \in CallIds : CallTimerFires(id)

SpecConcurrent == InitConcurrent /\ [][NextConcurrent]_vars

----------------------------------------------------------------------------
(* The email service (src/src/emailService.ts) over the nodemailer         *)
(* transport (src/src/transport/nodemailerTransport.ts).                   *)
(*                                                                         *)
(* One instance of EmailServiceImplementation and one call of a public     *)
(* method on it.  The steps are again the segments between two awaits:     *)
(* the call itself, the resumption after this.initializeTemplates(), the   *)
(* settlement of render(), of transporter.sendMail() and of                *)
(* transport.verify(), and the firing of a sleep timer.  The executes a    *)
(* method starts (of the render, of the send, and inside it of the         *)
(* transport's sendMail) are call records as above, each on an instance    *)
(* of its own policy.  Durations measured with Date.now() are "0ms"; the   *)
(* lines the service and the transport log themselves are not recorded.    *)

\* Every variable but service.
executorVars ==
  << config, context, state, pc, outcomes, invocations, timerCalls, log,
     returned, thrown, failure, classified, calls, isRetryable >>

ServiceMethods ==
  { "sendTemplateEmail", "sendCustomEmail", "previewTemplate",
    "previewCustomComponent", "testConnection" }

\* configured || preset
OrDefault(configured, preset) ==
  IF configured = Undefined THEN preset ELSE configured

\* this.config.retryConfig?.smtp || RetryConfigs.smtp
SmtpPolicy(s) == OrDefault(s.config.retryConfig.smtp, RetryConfigs.smtp)

\* this.config.retryConfig?.template || RetryConfigs.template
TemplatePolicy(s) ==
  OrDefault(s.config.retryConfig.template, RetryConfigs.template)

\* this.config.retryConfig || RetryConfigs.smtp of the transport, which is
\* constructed without a retryConfig.
TransportPolicy == RetryConfigs.smtp

\* The context each method passes to wrapError in its catch block.
CatchContext(method) ==
  CASE method = "sendTemplateEmail" ->
         [ templateName |-> "welcome", recipients |-> 1, duration |-> "0ms" ]
    [] method = "sendCustomEmail" ->
         [ componentName |-> "CustomEmail", recipients |-> 1,
           duration |-> "0ms" ]
    [] method = "previewTemplate" ->
         [ operation |-> "previewTemplate", templateName |-> "welcome" ]
    [] method = "previewCustomComponent" ->
         [ operation |-> "previewCustomComponent",
           componentName |-> "CustomEmail" ]
    [] method = "testConnection" -> [ operation |-> "testConnection" ]

\* A catch block that throws what it caught.
Rejection_rethrowsCaught(method, error) == error

\* The catch block of a public method: what the method rejects with.
Rejection(method, error) == wrapError(error, CatchContext(method))

\* The method of s rejects, its catch block having caught error.
Catch(s, error) ==
  [ s EXCEPT !.thrown = Rejection(s.method, error), !.pc = "rejected" ]

\* The methods that render a registered template, and the others that
\* render a component.
OfTemplate(method) == method \in { "sendTemplateEmail", "previewTemplate" }

Sends(method) == method \in { "sendTemplateEmail", "sendCustomEmail" }

\* The context of the execute of renderTemplate and renderCustomComponent.
RenderContext(method) ==
  IF OfTemplate(method)
  THEN [ operation |-> "renderTemplate", templateName |-> "welcome" ]
  ELSE [ operation |-> "renderCustomComponent",
         componentName |-> "CustomEmail" ]

\* A render operation that throws what render() failed with.
RenderFailure_rethrowsCaught(method, error) == error

\* The catch block of the render operation: what the operation rejects with
\* when getTemplate or render() failed with error.
RenderFailure(method, error) ==
  NewEmailError("TemplateRenderError",
    (IF OfTemplate(method) THEN "Failed to render template welcome: "
     ELSE "Failed to render component CustomEmail: ")
      \o (IF InstanceOfError(error) THEN error.message ELSE String(error)),
    IF InstanceOfError(error) THEN error ELSE Undefined,
    IF OfTemplate(method)
    THEN [ templateName |-> "welcome", props |-> << "name" >> ]
    ELSE [ componentName |-> "CustomEmail", props |-> << "name" >> ])

\* The context of the service's execute around transport.sendMail.
SendContext(method) ==
  IF OfTemplate(method)
  THEN [ operation |-> "sendTemplateEmail", templateName |-> "welcome",
         recipients |-> 1 ]
  ELSE [ operation |-> "sendCustomEmail", componentName |-> "CustomEmail",
         recipients |-> 1 ]

\* The context of the transport's execute around transporter.sendMail, and
\* the context of its catch block.
TransportContext ==
  [ operation |-> "sendMail", transport |-> "nodemailer", to |-> 1 ]

SmtpCatchContext ==
  [ to |-> << "user@example.com" >>, subject |-> "Welcome" ]

\* renderTemplate / renderCustomComponent is called: the execute of the
\* render begins, and rejects at once if it makes no attempt.
StartRender(s) ==
  LET render == CallLoopHead(TemplatePolicy(s),
                  [IdleCall EXCEPT !.context = RenderContext(s.method)],
                  IdleCall.state)
      t == [s EXCEPT !.render = render, !.pc = "render"]
  IN  IF render.pc = "rejected" THEN Catch(t, render.thrown) ELSE t

\* The head of the loop of the service's execute around transport.sendMail,
\* its state being st: it invokes transport.sendMail, whose own execute
\* begins and invokes transporter.sendMail, or it rejects having made no
\* attempt.
SendLoopHead(s, st) ==
  LET send == CallLoopHead(SmtpPolicy(s), s.send, st)
      t == [s EXCEPT !.send = send, !.pc = "send"]
  IN  IF send.pc = "rejected" THEN Catch(t, send.thrown)
      ELSE [ t EXCEPT
               !.transport =
                 CallLoopHead(TransportPolicy,
                   [IdleCall EXCEPT !.context = TransportContext],
                   IdleCall.state),
               !.sendMailCalls = @ + 1 ]

\* withRetry(() => this.transport.sendMail(mailOptions), ...) is called.
StartSend(s) ==
  SendLoopHead([s EXCEPT !.send = [IdleCall EXCEPT
                                     !.context = SendContext(s.method)]],
               IdleCall.state)

\* The private initializeTemplates is called by caller: it returns at once
\* on an initialized instance; otherwise the registrations run, within the
\* call, and the caller's continuation waits for the await.
InitializeTemplates(s, caller, ok) ==
  IF s.initialized THEN s
  ELSE [ s EXCEPT
           !.initializations = @ + 1,
           !.initFailures = IF ok THEN @ ELSE @ + 1,
           !.awaitingInit = Append(@, [caller |-> caller, ok |-> ok]) ]

\* new EmailServiceImplementation(transport, cfg); ok tells whether the
\* registrations of the auto-initialization succeed.
NewService(cfg, ok) ==
  LET s == [ config          |-> cfg,
             initialized     |-> FALSE,
             initializations |-> 0,
             initFailures    |-> 0,
             awaitingInit    |-> << >>,
             method          |-> "none",
             pc              |-> "constructed",
             render          |-> IdleCall,
             send            |-> IdleCall,
             transport       |-> IdleCall,
             sendMailCalls   |-> 0,
             returned        |-> None,
             thrown          |-> None ]
  IN  IF cfg.autoInitializeTemplates # FALSE
      THEN InitializeTemplates(s, "constructor", ok)
      ELSE s

\* Math.random() returns random, one of draws, where calculateDelay of call
\* c draws it, and is not drawn otherwise.
Draws(cfg, c, error, random, draws) ==
  IF cfg.jitter /\ CallRejected(cfg, c, error, random).pc = "sleep"
  THEN random \in draws
  ELSE random = Rat(1, 2)

\* What the methods fail with.
ValidatorFailures ==
  { NewEmailError("EmailValidationError",
      "Email validation failed: to: Invalid email address", Undefined,
      [ errors |-> << "to" >>, warnings |-> << >> ]) }

RenderFailures ==
  { NewError("Render failed"), NewError("render timeout"),
    StringValue("string error"), Undefined,
    NewEmailError("TemplateNotFoundError", "Template not found: welcome",
                  Undefined, [ templateName |-> "welcome" ]) }

TransporterFailures ==
  { NewError("connect ECONNREFUSED"),
    NewError("Invalid login: 535 Authentication failed") }

\* error, as the catch block of the transport's operation classifies it.
SmtpFailure(error) ==
  [ e \in TransporterFailures |->
      categorizeSmtpError(e, SmtpCatchContext) ][error]

VerifyFailures ==
  { NewError("verify failed"), ConnectionFailed, Undefined, Null }

\* The values Math.random() is taken to return in the sends.
SendDraws == { Rat(0, 1), Rat(19, 20) }

\* The retryConfig of the service: absent, or a policy of its own.
ServiceConfigs ==
  { [ autoInitializeTemplates |-> auto, retryConfig |-> retryConfig ] :
      auto \in BOOLEAN,
      retryConfig \in
        { [ smtp |-> Undefined, template |-> Undefined ],
          [ smtp |-> Undefined,
            template |-> [ maxAttempts |-> 3, initialDelay |-> 500,
                           maxDelay |-> 2000,
                           backoffMultiplier |-> Rat(2, 1),
                           jitter |-> TRUE ] ],
          [ smtp |-> [ maxAttempts |-> 1, initialDelay |-> 2000,
                       maxDelay |-> 10000,
                       backoffMultiplier |-> Rat(2, 1), jitter |-> FALSE ],
            template |-> [ maxAttempts |-> 0, initialDelay |-> 500,
                           maxDelay |-> 2000,
                           backoffMultiplier |-> Rat(2, 1),
                           jitter |-> FALSE ] ] } }

\* The continuation of the oldest pending call of the private
\* initializeTemplates runs: the flag is set if the registrations
\* succeeded, and a method that awaited it goes on to render.
InitializeTemplatesResumes ==
  /\ service.awaitingInit # << >>
  /\ LET resumed == Head(service.awaitingInit)
         s == [ service EXCEPT
                  !.awaitingInit = Tail(@),
                  !.initialized = IF resumed.ok THEN TRUE ELSE @ ]
     IN  service' = IF resumed.caller = "method" THEN StartRender(s) ELSE s
  /\ UNCHANGED executorVars

\* A method that renders a registered template is called on s and has
\* passed the validation of its options, if it validates any: it
\* initializes the templates first on an instance whose flag is not set.
EnsureInitialized(s, ok) ==
  IF ~s.initialized
  THEN [ InitializeTemplates(s, "method", ok) EXCEPT !.pc = "init" ]
  ELSE StartRender(s)

\* sendTemplateEmail(options), with options the validator fails with
\* invalid (None: it passes).
SendTemplateEmail(invalid, ok) ==
  /\ service.pc = "constructed"
  /\ ok \/ (invalid = None /\ ~service.initialized)
  /\ LET s == [service EXCEPT !.method = "sendTemplateEmail"]
     IN  service' = IF invalid # None THEN Catch(s, invalid)
                    ELSE EnsureInitialized(s, ok)
  /\ UNCHANGED executorVars

PreviewTemplate(ok) ==
  /\ service.pc = "constructed"
  /\ ok \/ ~service.initialized
  /\ service' = EnsureInitialized(
                  [service EXCEPT !.method = "previewTemplate"], ok)
  /\ UNCHANGED executorVars

\* sendCustomEmail(options), the options with a subject or without.
SendCustomEmail(invalid, subject) ==
  /\ service.pc = "constructed"
  /\ subject \/ invalid = None
  /\ LET s == [service EXCEPT !.method = "sendCustomEmail"]
     IN  service' =
           IF invalid # None THEN Catch(s, invalid)
           ELSE IF ~subject
           THEN Catch(s, NewEmailError("EmailSendError",
                           "Subject is required for custom emails",
                           Undefined, [ componentName |-> "CustomEmail" ]))
           ELSE StartRender(s)
  /\ UNCHANGED executorVars

PreviewCustomComponent ==
  /\ service.pc = "constructed"
  /\ service' = StartRender([service EXCEPT
                               !.method = "previewCustomComponent"])
  /\ UNCHANGED executorVars

TestConnection ==
  /\ service.pc = "constructed"
  /\ service' = [service EXCEPT !.method = "testConnection", !.pc = "verify"]
  /\ UNCHANGED executorVars

\* transport.verify() resolves with result.
VerifyResolves(result) ==
  /\ service.pc = "verify"
  /\ service.awaitingInit = << >>
  /\ service' = [ service EXCEPT
                    !.returned = [kind |-> "value", value |-> result],
                    !.pc = "resolved" ]
  /\ UNCHANGED executorVars

\* transport.verify() rejects with error.
VerifyRejects(error) ==
  /\ service.pc = "verify"
  /\ service.awaitingInit = << >>
  /\ service' = Catch(service, error)
  /\ UNCHANGED executorVars

\* render() resolves with html: the render's execute resolves, a preview
\* returns the html and a send goes on to the transport.
RenderResolves(html) ==
  /\ service.pc = "render"
  /\ service.render.pc = "op"
  /\ service.awaitingInit = << >>
  /\ LET s == [service EXCEPT !.render = CallResolved(@, html)]
     IN  service' =
           IF Sends(s.method) THEN StartSend(s)
           ELSE [ s EXCEPT
                    !.returned = [kind |-> "value", value |-> html],
                    !.pc = "resolved" ]
  /\ UNCHANGED executorVars

\* getTemplate or render() fails with error.
RenderRejects(error, random) ==
  /\ service.pc = "render"
  /\ service.render.pc = "op"
  /\ service.awaitingInit = << >>
  /\ LET failed == RenderFailure(service.method, error)
         cfg == TemplatePolicy(service)
         render == CallRejected(cfg, service.render, failed, random)
         s == [service EXCEPT !.render = render]
     IN  /\ Draws(cfg, service.render, failed, random, RandomDraws)
         /\ service' = IF render.pc = "rejected"
                       THEN Catch(s, render.thrown)
                       ELSE s
  /\ UNCHANGED executorVars

\* transporter.sendMail() resolves: the transport's execute, the service's
\* execute and the method resolve.
SendMailResolves ==
  /\ service.pc = "send"
  /\ service.transport.pc = "op"
  /\ service.awaitingInit = << >>
  /\ service' = [ service EXCEPT
                    !.transport = CallResolved(@, Undefined),
                    !.send = CallResolved(@, Undefined),
                    !.returned = [kind |-> "value", value |-> Undefined],
                    !.pc = "resolved" ]
  /\ UNCHANGED executorVars

\* transporter.sendMail() rejects with error: the transport's operation
\* throws its classification; if the transport's execute rejects, the
\* operation of the service's execute has rejected with what it raised, and
\* if that one rejects too the catch block of the method runs.  inner and
\* outer are what Math.random() returns to the two executes.
SendMailRejects(error, inner, outer) ==
  /\ service.pc = "send"
  /\ service.transport.pc = "op"
  /\ service.awaitingInit = << >>
  /\ LET categorized == SmtpFailure(error)
         transport == CallRejected(TransportPolicy, service.transport,
                                   categorized, inner)
         s == [service EXCEPT !.transport = transport]
         cfg == SmtpPolicy(service)
         send == CallRejected(cfg, service.send, transport.thrown, outer)
         t == [s EXCEPT !.send = send]
     IN  /\ Draws(TransportPolicy, service.transport, categorized, inner,
                   SendDraws)
         /\ IF transport.pc = "rejected"
            THEN Draws(cfg, service.send, transport.thrown, outer, SendDraws)
            ELSE outer = Rat(1, 2)
         /\ service' = IF transport.pc # "rejected" THEN s
                       ELSE IF send.pc = "rejected"
                       THEN Catch(t, send.thrown)
                       ELSE t
  /\ UNCHANGED executorVars

\* The timer of the execute that sleeps fires: the loop of that execute
\* goes round.
SleepTimerFires ==
  /\ service.pc \in { "render", "send" }
  /\ service.awaitingInit = << >>
  /\ \/ /\ service.pc = "render"
        /\ service.render.pc = "sleep"
        /\ service' = [ service EXCEPT
                          !.render = CallLoopHead(TemplatePolicy(service),
                                                  @, @.state) ]
     \/ /\ service.pc = "send"
        /\ service.transport.pc = "sleep"
        /\ service' = [ service EXCEPT
                          !.transport = CallLoopHead(TransportPolicy,
                                                     @, @.state),
                          !.sendMailCalls = @ + 1 ]
     \/ /\ service.pc = "send"
        /\ service.transport.pc = "rejected"
        /\ service.send.pc = "sleep"
        /\ service' = SendLoopHead(service, service.send.state)
  /\ UNCHANGED executorVars

\* A constructed service of any configuration, no method called yet.
InitService ==
  /\ config = DEFAULT_RETRY_CONFIG
  /\ NoCall
  /\ failure = None
  /\ classified = << >>
  /\ calls = << >>
  /\ isRetryable = None
  /\ service \in { NewService(cfg, ok) :
                     cfg \in ServiceConfigs, ok \in BOOLEAN }

NextService ==
  \/ InitializeTemplatesResumes
  \/ \E invalid \in {None} \cup ValidatorFailures, ok \in BOOLEAN :
       SendTemplateEmail(invalid, ok)
  \/ \E ok \in BOOLEAN : PreviewTemplate(ok)
  \/ \E invalid \in {None} \cup ValidatorFailures, subject \in BOOLEAN :
       SendCustomEmail(invalid, subject)
  \/ PreviewCustomComponent
  \/ TestConnection
  \/ \E result \in BOOLEAN : VerifyResolves(result)
  \/ \E error \in VerifyFailures : VerifyRejects(error)
  \/ \E html \in { "<html>welcome</html>" } : RenderResolves(html)
  \/ \E error \in RenderFailures, random \in RandomDraws :
       RenderRejects(error, random)
  \/ SendMailResolves
  \/ \E error \in TransporterFailures :
       \E inner, outer \in SendDraws \cup { Rat(1, 2) } :
         SendMailRejects(error, inner, outer)
  \/ SleepTimerFires

SpecService == InitService /\ [][NextService]_vars

----------------------------------------------------------------------------
(* What the claims speak about.                                            *)

\* The call has settled.
Settled == pc \in {"resolved", "rejected"}

\* The policy is a RetryPolicy: maxAttempts is a positive integer.
ValidPolicy == config.maxAttempts >= 1

\* Invocation i of operation() rejected.
Failed(i) == ~outcomes[i].ok

\* Invocation i rejected with an error the retryability predicate accepts.
FailedRetryable(i) == Failed(i) /\ isRetryableError(outcomes[i].error)

\* Invocation i rejected with a classified error that is not retryable.
FailedNonRetryableClassified(i) ==
  /\ Failed(i)
  /\ InstanceOfEmailError(outcomes[i].error)
  /\ ~outcomes[i].error.retryable

\* The messages of the failures of this call, oldest first.
FailureMessages ==
  [i \in 1..Len(outcomes) |-> WrappedError(outcomes[i].error).message]

\* The error carries a context with the executor's two keys.
HasRetryContext(e) ==
  /\ InstanceOfEmailError(e)
  /\ {"attempts", "allErrors"} \subseteq DOMAIN e.context

\* The log calls with the given message.
LogCalls(message) == { i \in 1..Len(log) : log[i].message = message }

RECURSIVE Sum(_)
Sum(seq) == IF Len(seq) = 0 THEN 0 ELSE seq[1] + Sum(Tail(seq))

----------------------------------------------------------------------------
(* C1: if operation always fails with a retryable error and maxAttempts is *)
(* N >= 1, execute invokes it exactly N times and the error it raises has  *)
(* a context with attempts = N and an allErrors list of length N.          *)
C1_ExhaustionCarriesContext ==
  ( /\ pc = "rejected"
    /\ ValidPolicy
    /\ \A i \in 1..Len(outcomes) : FailedRetryable(i) )
  => /\ invocations = config.maxAttempts
     /\ HasRetryContext(thrown)
     /\ thrown.context.attempts = config.maxAttempts
     /\ Len(thrown.context.allErrors) = config.maxAttempts

(* C2: if operation always fails with a classified error that is not       *)
(* retryable, execute invokes it exactly once, sets no timer, for every    *)
(* maxAttempts of a policy, and raises an error whose message is           *)
(* "Operation failed after 1 attempts: " followed by the original message. *)
C2_NoRetryOnNonRetryable ==
  ( /\ Settled
    /\ ValidPolicy
    /\ \A i \in 1..Len(outcomes) : FailedNonRetryableClassified(i) )
  => /\ pc = "rejected"
     /\ invocations = 1
     /\ Len(outcomes) = 1
     /\ timerCalls = << >>
     /\ thrown.message =
          "Operation failed after 1 attempts: " \o outcomes[1].error.message

\* A non-retryable classified failure under a policy that allows three
\* attempts has ended the call.
C2_Witness ==
  /\ pc = "rejected"
  /\ config.maxAttempts = 3
  /\ outcomes = << [ok |-> FALSE, error |-> AuthFailed] >>

(* C3: if operation always succeeds, execute invokes it exactly once for   *)
(* every maxAttempts of a policy, returns the value of that invocation,    *)
(* sets no timer and emits no "Operation succeeded after retry" info log.  *)
C3_SuccessInvokesOnce ==
  ( /\ Settled
    /\ ValidPolicy
    /\ \A i \in 1..Len(outcomes) : outcomes[i].ok )
  => /\ pc = "resolved"
     /\ invocations = 1
     /\ Len(outcomes) = 1
     /\ returned = [kind |-> "value", value |-> outcomes[1].value]
     /\ timerCalls = << >>
     /\ LogCalls("Operation succeeded after retry") = {}
     /\ \A i \in 1..Len(log) : log[i].level # "info"

\* The first invocation has succeeded under a policy of five attempts.
C3_Witness ==
  /\ pc = "resolved"
  /\ config.maxAttempts = 5
  /\ outcomes = << [ok |-> TRUE, value |-> "sent"] >>

----------------------------------------------------------------------------
\* operation() failed with retryable errors on every attempt before the last
\* one made, which succeeded, and there was more than one attempt.
RecoveredAfterFailures ==
  /\ pc = "resolved"
  /\ Len(outcomes) > 1
  /\ \A i \in 1..(Len(outcomes) - 1) : FailedRetryable(i)
  /\ outcomes[Len(outcomes)].ok

\* The value the executor itself gives a key of a log line.
LoggedByExecutor(i, key, value) ==
  key \in DOMAIN log[i].meta /\ log[i].meta[key] = value

\* The value of a key of a log line: the caller's context, spread last,
\* replaces the executor's value of a key of the same name.
LoggedUnlessCallerKey(i, key, value) ==
  /\ key \in DOMAIN log[i].meta
  /\ log[i].meta[key] =
       IF key \in DOMAIN context THEN context[key] ELSE value

(* C4 as stated: if operation fails with retryable errors on attempts      *)
(* 1..k-1 and succeeds on attempt k (1 < k <= maxAttempts), execute        *)
(* invokes it exactly k times, returns the success value and emits exactly *)
(* one info log "Operation succeeded after retry" carrying attempt = k and *)
(* totalDelay = the sum of the k-1 delays slept in this call.              *)
C4_RecoveryLogCarriesAttempt ==
  RecoveredAfterFailures
  => /\ invocations = Len(outcomes)
     /\ returned = [kind |-> "value", value |-> outcomes[Len(outcomes)].value]
     /\ Len(timerCalls) = Len(outcomes) - 1
     /\ Cardinality(LogCalls("Operation succeeded after retry")) = 1
     /\ \A i \in LogCalls("Operation succeeded after retry") :
          /\ log[i].level = "info"
          /\ LoggedByExecutor(i, "attempt", Len(outcomes))
          /\ LoggedByExecutor(i, "totalDelay", Sum(timerCalls))

(* C4 amended: as above, but the log carries attempt = k and totalDelay =  *)
(* the sum of the delays only for the keys the caller's context does not   *)
(* itself define; a key attempt or totalDelay of the caller's context      *)
(* replaces the executor's value in the log line.                          *)
C4_RecoveryLog ==
  RecoveredAfterFailures
  => /\ invocations = Len(outcomes)
     /\ returned = [kind |-> "value", value |-> outcomes[Len(outcomes)].value]
     /\ Len(timerCalls) = Len(outcomes) - 1
     /\ Cardinality(LogCalls("Operation succeeded after retry")) = 1
     /\ \A i \in LogCalls("Operation succeeded after retry") :
          /\ log[i].level = "info"
          /\ LoggedUnlessCallerKey(i, "attempt", Len(outcomes))
          /\ LoggedUnlessCallerKey(i, "totalDelay", Sum(timerCalls))

\* A success on the third attempt, after two jittered sleeps, of a call
\* whose context defines neither key.
C4_Witness ==
  /\ RecoveredAfterFailures
  /\ Len(outcomes) = 3
  /\ config.jitter
  /\ context = [operation |-> "send-email"]
  /\ \E i \in LogCalls("Operation succeeded after retry") :
       log[i].meta.attempt = 3 /\ log[i].meta.totalDelay = Sum(timerCalls)

----------------------------------------------------------------------------
\* min(initialDelay * backoffMultiplier^(k-1), maxDelay), the capped delay
\* before jitter, as a rational.
CappedDelay(cfg, k) ==
  RMin(RMul(Rat(cfg.initialDelay, 1), RPow(cfg.backoffMultiplier, k - 1)),
       Rat(cfg.maxDelay, 1))

\* The integer i is the rational x.
IsExactly(i, x) == i * x.d = x.n

\* The integer i is within 1/2 of the rational x.
WithinHalfOf(i, x) == 2 * i * x.d - x.d <= 2 * x.n /\ 2 * x.n <= 2 * i * x.d + x.d

\* The policy and the outcomes of scenario 1: three failures, then success.
Scenario1 ==
  /\ config = [ maxAttempts |-> 5, initialDelay |-> 100, maxDelay |-> 1000,
                backoffMultiplier |-> Rat(2, 1), jitter |-> FALSE ]
  /\ RecoveredAfterFailures
  /\ Len(outcomes) = 4

(* C5 as stated: with jitter = false the k-th delay slept by execute, the  *)
(* one before attempt k+1, equals min(d * m^(k-1), maxDelay); d = 100,     *)
(* m = 2, maxDelay = 1000 and three failures followed by success give 4    *)
(* invocations and the delays [100, 200, 400].                             *)
C5_DelayEqualsCappedPower ==
  /\ ~config.jitter =>
       \A k \in 1..Len(timerCalls) :
         IsExactly(timerCalls[k], CappedDelay(config, k))
  /\ Scenario1 => invocations = 4 /\ timerCalls = << 100, 200, 400 >>

(* C5 amended: with jitter = false the k-th delay slept by execute is      *)
(* min(d * m^(k-1), maxDelay) rounded to the nearest integer, and equals   *)
(* it whenever that value is an integer (as for every integer d, m and     *)
(* maxDelay); the example of the claim holds as stated.                    *)
C5_DelayIsRoundedCappedPower ==
  /\ ~config.jitter =>
       \A k \in 1..Len(timerCalls) :
         LET capped == CappedDelay(config, k)
         IN  /\ WithinHalfOf(timerCalls[k], capped)
             /\ (capped.n % capped.d = 0 =>
                   timerCalls[k] = capped.n \div capped.d)
  /\ Scenario1 => invocations = 4 /\ timerCalls = << 100, 200, 400 >>

\* Scenario 1 has run to its end.
C5_Witness == Scenario1 /\ Len(timerCalls) = 3

(* C6 as stated: with jitter = true every delay computed by calculateDelay *)
(* (after rounding) lies within plus or minus 10% of the un-jittered,      *)
(* capped value min(initialDelay * backoffMultiplier^(attempt-1),          *)
(* maxDelay) and is never negative.                                        *)
C6_JitterWithinTenPercent ==
  config.jitter =>
    \A k \in 1..Len(timerCalls) :
      LET capped == CappedDelay(config, k)
      IN  /\ timerCalls[k] >= 0
          /\ 9 * capped.n <= 10 * timerCalls[k] * capped.d
          /\ 10 * timerCalls[k] * capped.d <= 11 * capped.n

(* C6 amended: with jitter = true every delay computed by calculateDelay   *)
(* is never negative and is the rounding to the nearest integer of a value *)
(* within plus or minus 10% of the un-jittered, capped value: it lies      *)
(* between 0.9 * capped - 1/2 and 1.1 * capped + 1/2.                      *)
C6_JitterWithinTenPercentRounded ==
  config.jitter =>
    \A k \in 1..Len(timerCalls) :
      LET capped == CappedDelay(config, k)
      IN  /\ timerCalls[k] >= 0
          /\ 18 * capped.n - 10 * capped.d <= 20 * timerCalls[k] * capped.d
          /\ 20 * timerCalls[k] * capped.d <= 22 * capped.n + 10 * capped.d

\* A jittered delay below and one above the capped value have been slept.
C6_Witness ==
  /\ config.jitter
  /\ \E k \in 1..Len(timerCalls) :
       timerCalls[k] * CappedDelay(config, k).d < CappedDelay(config, k).n
  /\ \E k \in 1..Len(timerCalls) :
       timerCalls[k] * CappedDelay(config, k).d > CappedDelay(config, k).n

(* C7: maxDelay is an upper bound on every delay execute sleeps: for every *)
(* policy, jitter on or off, and every attempt the delay passed to the     *)
(* timer is >= 0 and <= maxDelay.                                          *)
C7_DelayBoundedByMaxDelay ==
  \A k \in 1..Len(timerCalls) :
    timerCalls[k] >= 0 /\ timerCalls[k] <= config.maxDelay

----------------------------------------------------------------------------
\* The value the last invocation of operation() rejected with.
LastFailure == outcomes[Len(outcomes)].error

\* The call was rejected and its last failure is a classified error.
RejectedOnClassified ==
  /\ pc = "rejected"
  /\ Len(outcomes) > 0
  /\ InstanceOfEmailError(LastFailure)

(* C8: whenever execute rejects, the error the caller observes carries a   *)
(* context in which attempts is the number of times this call invoked      *)
(* operation and allErrors is the list of the messages of every failed     *)
(* attempt of this call, oldest first.                                     *)
C8_RejectionCarriesAttemptContext ==
  (pc = "rejected" /\ ValidPolicy)
  => /\ HasRetryContext(thrown)
     /\ thrown.context.attempts = invocations
     /\ thrown.context.allErrors = FailureMessages

(* C9: when the last failure is a classified error, the error execute      *)
(* raises is an instance of the same concrete class, hence of the same     *)
(* code and retryable flag, whose message is "Operation failed after       *)
(* {attempt} attempts: {original message}" with attempt the number of      *)
(* invocations made, and whose cause is the original last failure.         *)
C9_RewrapKeepsClass ==
  RejectedOnClassified
  => /\ InstanceOfEmailError(thrown)
     /\ thrown.name = LastFailure.name
     /\ thrown.code = LastFailure.code
     /\ thrown.retryable = LastFailure.retryable
     /\ thrown.message =
          "Operation failed after " \o ToString(invocations) \o " attempts: "
            \o LastFailure.message
     /\ thrown.cause = LastFailure
     /\ thrown # LastFailure

\* Two attempts, both failed on a connection error, the second one final.
C9_Witness ==
  /\ RejectedOnClassified
  /\ invocations = 2
  /\ LastFailure = ConnectionFailed
  /\ thrown.message =
       "Operation failed after 2 attempts: Connection failed: ETIMEDOUT"
  /\ thrown.code = "SMTP_CONNECTION_ERROR"

(* C10: in the context of the re-wrapped final error the keys are merged   *)
(* with this precedence: the context of the original failure overrides the *)
(* context of the caller, which overrides the executor's attempts and      *)
(* allErrors; no key of the original failure's context is overwritten.     *)
C10_ContextPrecedence ==
  RejectedOnClassified
  => /\ DOMAIN thrown.context =
          {"attempts", "allErrors"} \cup DOMAIN context
            \cup DOMAIN LastFailure.context
     /\ \A key \in DOMAIN thrown.context :
          thrown.context[key] =
            IF key \in DOMAIN LastFailure.context
              THEN LastFailure.context[key]
            ELSE IF key \in DOMAIN context THEN context[key]
            ELSE IF key = "attempts" THEN invocations
            ELSE FailureMessages

\* A failure whose context shares the key code with the caller's context,
\* under a caller's context that shares the key attempts with the executor:
\* each of the two conflicts has been resolved.
C10_Witness ==
  /\ RejectedOnClassified
  /\ LastFailure = AuthFailed
  /\ "code" \in DOMAIN context /\ context.code # AuthFailed.context.code
  /\ "attempts" \in DOMAIN context /\ context.attempts # invocations
  /\ thrown.context.code = "SMTP001"
  /\ thrown.context.attempts = 99

----------------------------------------------------------------------------
\* The call was rejected and its last failure is no classified error.
RejectedOnUnclassified ==
  /\ pc = "rejected"
  /\ Len(outcomes) > 0
  /\ ~InstanceOfEmailError(LastFailure)

(* C11 as stated: when the last failure is not a classified error, execute *)
(* raises it unchanged: the value the caller catches is the very value the *)
(* operation failed with, not re-wrapped and with no attempt context.      *)
C11_UnclassifiedRaisedUnchanged ==
  RejectedOnUnclassified => thrown = LastFailure

(* C11 amended: when the last failure is not a classified error, execute   *)
(* raises it with no attempt context added: an Error object is raised      *)
(* unchanged, and a value that is no Error object (a string, say) is       *)
(* raised as new Error(String(value)), not as the value itself.            *)
C11_UnclassifiedRaisedWithoutContext ==
  RejectedOnUnclassified
  => /\ thrown.kind = "Error"
     /\ DOMAIN thrown = {"kind", "message"}
     /\ InstanceOfError(LastFailure) => thrown = LastFailure
     /\ ~InstanceOfError(LastFailure) =>
          thrown = [kind |-> "Error", message |-> LastFailure.string]

\* Two attempts failed on a raw transient error, the second one final, and
\* the caller passed a context.
C11_Witness ==
  /\ RejectedOnUnclassified
  /\ invocations = 2
  /\ context # EmptyObject
  /\ LastFailure = [kind |-> "Error", message |-> "connect ETIMEDOUT"]
  /\ thrown = LastFailure

----------------------------------------------------------------------------
\* Scenario 4: the policy, and an operation that has thrown the raw
\* Error("random failure") at every invocation made.
Scenario4 ==
  /\ config = [ maxAttempts |-> 2, initialDelay |-> 10, maxDelay |-> 50,
                backoffMultiplier |-> Rat(2, 1), jitter |-> FALSE ]
  /\ Settled
  /\ \A i \in 1..Len(outcomes) :
       Failed(i) /\ outcomes[i].error = NewError("random failure")

(* C12 as stated: the executor decides whether to retry by classifying the *)
(* failure: an operation that always throws a raw Error("random failure")  *)
(* under {maxAttempts: 2, initialDelay: 10, maxDelay: 50,                  *)
(* backoffMultiplier: 2, jitter: false} is invoked 2 times with exactly    *)
(* one delay of 10 ms between the two invocations.                         *)
C12_RandomFailureRetriedOnce ==
  Scenario4 => invocations = 2 /\ timerCalls = << 10 >>

(* C12 amended: the executor decides whether to retry with the             *)
(* retryability predicate isRetryableError, for which a raw Error without  *)
(* a transient signature is not retryable: the operation of the claim is   *)
(* invoked once, no delay is slept, and the raw error itself is raised.    *)
C12_RandomFailureNotRetried ==
  Scenario4
  => /\ invocations = 1
     /\ timerCalls = << >>
     /\ pc = "rejected"
     /\ thrown = NewError("random failure")
     /\ \A i \in LogCalls("Operation failed") : ~log[i].meta.willRetry

\* Scenario 4 has run to its end.
C12_Witness == Scenario4 /\ Len(outcomes) = 1 /\ pc = "rejected"

----------------------------------------------------------------------------
\* Invocation i failed and the executor took the failure, as it wraps it
\* (retry.ts:65-68), for retryable.
FailedRetryableAsWrapped(i) ==
  Failed(i) /\ isRetryableError(WrappedError(outcomes[i].error))

(* C13: execute never swallows a failure. It resolves only if some         *)
(* invocation of the operation succeeded, and then with that invocation's  *)
(* value; otherwise it rejects. It never invokes the operation again       *)
(* after a failure it took for non-retryable or after attempt maxAttempts, *)
(* or after a success.                                                     *)
C13_NeverSwallowsNorOverruns ==
  /\ pc = "resolved" =>
       /\ Len(outcomes) > 0
       /\ outcomes[Len(outcomes)].ok
       /\ returned = [kind |-> "value", value |-> outcomes[Len(outcomes)].value]
       /\ thrown = None
  /\ pc = "rejected" =>
       /\ \A i \in 1..Len(outcomes) : Failed(i)
       /\ thrown # None
       /\ returned = None
  /\ (Len(outcomes) > 0 /\ Failed(Len(outcomes))) => pc \in {"sleep", "op", "rejected"}
  /\ \A i \in 1..Len(outcomes) :
       i < invocations => FailedRetryableAsWrapped(i) /\ i < config.maxAttempts
  /\ invocations <= Len(outcomes) + 1
  /\ invocations <= config.maxAttempts

\* One call that ended on a failure taken for non-retryable after a retried
\* one, and one that recovered after two failures.
C13_Witness ==
  \/ /\ pc = "rejected"
     /\ Len(outcomes) = 2
     /\ FailedRetryableAsWrapped(1)
     /\ ~FailedRetryableAsWrapped(2)
     /\ config.maxAttempts = 3
  \/ /\ pc = "resolved"
     /\ Len(outcomes) = 3

----------------------------------------------------------------------------
\* The last "Operation failed" warning says that the executor will retry.
LastWarningWillRetry ==
  /\ LogCalls("Operation failed") # {}
  /\ LET last == CHOOSE i \in LogCalls("Operation failed") :
                   \A j \in LogCalls("Operation failed") : j <= i
     IN  log[last].meta.willRetry

\* A step invokes the operation.
Invokes == invocations' # invocations

(* C15: within one execute call the attempts are strictly sequential: at   *)
(* most one invocation is in flight, and invocation k+1 starts only from   *)
(* the firing of the sleep timer, after invocation k has failed, been      *)
(* recorded, been decided retryable (the warning logged), and its delay    *)
(* been handed to the timer and added to totalDelay.                       *)
C15_AttemptsStrictlySequential ==
  /\ [](invocations = Len(outcomes) + (IF pc = "op" THEN 1 ELSE 0))
  /\ [][Invokes =>
          /\ invocations' = invocations + 1
          /\ pc' = "op"
          /\ \/ pc = "idle" /\ invocations = 0
             \/ /\ pc = "sleep"
                /\ Len(outcomes) = invocations
                /\ Failed(invocations)
                /\ Len(state.errors) = invocations
                /\ state.errors[invocations]
                     = WrappedError(outcomes[invocations].error)
                /\ LastWarningWillRetry
                /\ Len(timerCalls) = invocations
                /\ state.totalDelay = Sum(timerCalls)]_vars

\* A second invocation is in flight after the first failed and the timer
\* fired.
C15_Witness ==
  /\ pc = "op"
  /\ invocations = 2
  /\ Len(timerCalls) = 1
  /\ Failed(1)

----------------------------------------------------------------------------
\* The classifications made by wrapError, and those made of a generic error
\* (an Error that is no EmailError) by either classifier.
ByWrapError == { i \in 1..Len(classified) : classified[i].by = "wrapError" }
OfGeneric == { i \in 1..Len(classified) : classified[i].error.kind = "Error" }

\* The lower-cased message of the error of classification i holds one of
\* the keywords.
Mentions(i, keywords) ==
  \E kw \in keywords : includes(toLowerCase(classified[i].error.message), kw)

\* Classification i returned a new error of the class, with the class's
\* code and retryable flag, the prefixed message, the classified error as
\* cause and the context argument as context.
Yields(i, class, retryable, prefix) ==
  LET c == classified[i]
  IN  /\ c.result.kind = "EmailError"
      /\ c.result.name = class
      /\ c.result.retryable = retryable
      /\ c.result.code = EmailErrorClasses[class].code
      /\ c.result.message = prefix \o c.error.message
      /\ c.result.cause = c.error
      /\ c.result.context = c.context

(* C16: wrapError is idempotent on classified errors: given an EmailError  *)
(* it returns that very error (same class, retryable flag, cause and       *)
(* context, even when a new context argument is passed), so                *)
(* wrapError(wrapError(x)) is wrapError(x) for every x.                    *)
C16_WrapErrorIdempotent ==
  \A i \in ByWrapError :
    /\ InstanceOfEmailError(classified[i].error) =>
         classified[i].result = classified[i].error
    /\ (i > 1 /\ i - 1 \in ByWrapError) =>
         classified[i].result = classified[i - 1].result
    /\ InstanceOfEmailError(classified[i].result)

\* A generic error that would classify otherwise by its new message has
\* been wrapped twice, the second time with another context.
C16_Witness ==
  /\ Len(classified) = 2
  /\ ByWrapError = {1, 2}
  /\ failure = NewError("connect ETIMEDOUT")
  /\ classified[1].context = [ operation |-> "sendEmail" ]
  /\ classified[2].context = Undefined
  /\ classified[2].result.context = [ operation |-> "sendEmail" ]
  /\ classified[2].result.name = "SMTPConnectionError"

----------------------------------------------------------------------------
(* C17 as stated: classifying a generic error whose lower-cased message    *)
(* contains "auth", "login" or "password" yields the Authentication        *)
(* category (SMTPAuthenticationError, retryable = false), and this rule    *)
(* takes precedence over the connectivity rule when both match.            *)
C17_AuthKeywordsYieldAuthentication ==
  \A i \in OfGeneric :
    Mentions(i, AuthKeywords) =>
      /\ classified[i].result.name = "SMTPAuthenticationError"
      /\ ~classified[i].result.retryable

(* C17 amended: the three keywords are those of categorizeSmtpError, the   *)
(* transport's classifier; wrapError knows "auth" only. Each classifier    *)
(* yields SMTPAuthenticationError (retryable = false) for a generic error  *)
(* whose lower-cased message holds one of its own keywords, before it      *)
(* tests for connectivity; wrapError takes a message with "login" or       *)
(* "password" and without "auth" by its later rules.                       *)
C17_AuthKeywordsOfEachClassifier ==
  \A i \in OfGeneric :
    /\ (i \in ByWrapError /\ Mentions(i, {"auth"})) =>
         Yields(i, "SMTPAuthenticationError", FALSE, "Authentication failed: ")
    /\ (i \notin ByWrapError /\ Mentions(i, AuthKeywords)) =>
         Yields(i, "SMTPAuthenticationError", FALSE,
                "SMTP authentication failed: ")
    /\ (i \in ByWrapError /\ ~Mentions(i, {"auth"})) =>
         classified[i].result.name
           = IF Mentions(i, {"connect"}) THEN "SMTPConnectionError"
             ELSE "EmailSendError"

\* wrapError has classified a message that holds its authentication and
\* its connectivity keyword.
C17_Witness ==
  /\ ByWrapError = {1}
  /\ failure = NewError("connect: auth failed")
  /\ classified[1].result.name = "SMTPAuthenticationError"
  /\ classified[1].result.message = "Authentication failed: connect: auth failed"

----------------------------------------------------------------------------
\* The error of classification i matches the connectivity rule of the spec
\* and no authentication keyword.
ConnectivityOnly(i) ==
  Mentions(i, ConnectKeywords) /\ ~Mentions(i, AuthKeywords)

(* C18 as stated: classifying a generic error whose lower-cased message    *)
(* contains "connect", "timeout" or "enotfound", and none of the           *)
(* authentication keywords, yields the Connectivity category               *)
(* (SMTPConnectionError, retryable = true).                                *)
C18_ConnectKeywordsYieldConnectivity ==
  \A i \in OfGeneric :
    ConnectivityOnly(i) =>
      /\ classified[i].result.name = "SMTPConnectionError"
      /\ classified[i].result.retryable

(* C18 amended: the three keywords are those of categorizeSmtpError;       *)
(* wrapError knows "connect" only. For a generic error with none of the    *)
(* authentication keywords, categorizeSmtpError yields SMTPConnectionError *)
(* (retryable = true) on "connect", "timeout" or "enotfound", and          *)
(* wrapError yields it on "connect" and yields EmailSendError, retryable   *)
(* too, on "timeout" or "enotfound" without "connect".                     *)
C18_ConnectKeywordsOfEachClassifier ==
  \A i \in OfGeneric :
    ConnectivityOnly(i) =>
      /\ classified[i].result.retryable
      /\ i \notin ByWrapError =>
           Yields(i, "SMTPConnectionError", TRUE, "SMTP connection failed: ")
      /\ (i \in ByWrapError /\ Mentions(i, {"connect"})) =>
           Yields(i, "SMTPConnectionError", TRUE, "Connection failed: ")
      /\ (i \in ByWrapError /\ ~Mentions(i, {"connect"})) =>
           Yields(i, "EmailSendError", TRUE, "Email operation failed: ")

\* The transport's classifier has taken an ENOTFOUND failure for a
\* connection error.
C18_Witness ==
  /\ Len(classified) = 1
  /\ ByWrapError = {}
  /\ failure = NewError("getaddrinfo ENOTFOUND smtp.example.com")
  /\ classified[1].result.name = "SMTPConnectionError"
  /\ classified[1].result.retryable

----------------------------------------------------------------------------
(* C19 as stated: classifying the raw error new Error("ECONNREFUSED")      *)
(* yields category Connectivity with retryable = true.                     *)
C19_EconnrefusedIsConnectivity ==
  \A i \in OfGeneric :
    classified[i].error = NewError("ECONNREFUSED") =>
      /\ classified[i].result.name = "SMTPConnectionError"
      /\ classified[i].result.retryable

(* C19 amended: "econnrefused" does not contain "connect": both            *)
(* classifiers take new Error("ECONNREFUSED") for a send failure           *)
(* (EmailSendError, code EMAIL_SEND_ERROR) with retryable = true, and      *)
(* take new Error("connect ECONNREFUSED"), the message nodemailer gives,   *)
(* for a connection failure with retryable = true.                         *)
C19_EconnrefusedIsSendFailure ==
  \A i \in OfGeneric :
    /\ classified[i].error = NewError("ECONNREFUSED") =>
         Yields(i, "EmailSendError", TRUE,
                IF i \in ByWrapError THEN "Email operation failed: "
                ELSE "SMTP send failed: ")
    /\ classified[i].error = NewError("connect ECONNREFUSED") =>
         Yields(i, "SMTPConnectionError", TRUE,
                IF i \in ByWrapError THEN "Connection failed: "
                ELSE "SMTP connection failed: ")

\* wrapError has classified new Error("ECONNREFUSED").
C19_Witness ==
  /\ ByWrapError = {1}
  /\ failure = NewError("ECONNREFUSED")
  /\ classified[1].result.message = "Email operation failed: ECONNREFUSED"
  /\ classified[1].result.code = "EMAIL_SEND_ERROR"

----------------------------------------------------------------------------
(* C20: wrapError of a generic error whose message matches neither the     *)
(* authentication nor the connectivity keywords yields SendFailure         *)
(* (EmailSendError, retryable = true) with message "Email operation        *)
(* failed: " + original message, cause = the original error and context =  *)
(* the supplied context.                                                   *)
C20_OtherwiseSendFailure ==
  \A i \in OfGeneric \cap ByWrapError :
    (~Mentions(i, AuthKeywords) /\ ~Mentions(i, ConnectKeywords)) =>
      Yields(i, "EmailSendError", TRUE, "Email operation failed: ")

\* new Error("unexpected") has been wrapped with a context.
C20_Witness ==
  /\ ByWrapError = {1}
  /\ failure = NewError("unexpected")
  /\ classified[1].context = [ operation |-> "sendEmail" ]
  /\ classified[1].result.message = "Email operation failed: unexpected"
  /\ classified[1].result.cause = NewError("unexpected")
  /\ classified[1].result.context = [ operation |-> "sendEmail" ]

----------------------------------------------------------------------------
\* The calls made on the instance.
Begun == { id \in CallIds : calls[id].pc # "idle" }

\* The attempt numbers of the "Executing operation" lines of call c, in
\* order.
AttemptsLogged(c) ==
  LET lines == SelectSeq(c.log, LAMBDA l : l.message = "Executing operation")
  IN  [k \in 1..Len(lines) |-> lines[k].meta.attempt]

\* Call c counts, records and sums what its own operation did and nothing
\* else.
OwnsItsState(c) ==
  /\ c.invocations = Len(c.outcomes) + (IF c.pc = "op" THEN 1 ELSE 0)
  /\ c.state.attempt = c.invocations
  /\ AttemptsLogged(c) = [k \in 1..c.invocations |-> k]
  /\ \A i \in 1..(Len(c.outcomes) - 1) : ~c.outcomes[i].ok
  /\ c.state.errors =
       [i \in 1..Len(SelectSeq(c.outcomes, LAMBDA o : ~o.ok)) |->
          WrappedError(c.outcomes[i].error)]
  /\ Len(c.timerCalls) = c.invocations - (IF c.pc = "sleep" THEN 0 ELSE 1)
  /\ \A k \in 1..Len(c.timerCalls) :
       \E random \in RandomDraws :
         /\ ~config.jitter => random = Rat(1, 2)
         /\ c.timerCalls[k] = calculateDelay(config, k, random)
  /\ c.state.totalDelay = Sum(c.timerCalls)
  /\ (c.pc = "rejected" /\ InstanceOfEmailError(c.thrown)) =>
       /\ c.thrown.context.attempts = c.invocations
       /\ c.thrown.context.allErrors =
            [i \in 1..Len(c.outcomes) |-> WrappedError(c.outcomes[i].error).message]

(* C14: each call to execute owns a fresh attempt state: for any           *)
(* interleaving of concurrent execute calls, and for calls made one after  *)
(* another on the same RetryableOperation instance, each call's attempt    *)
(* numbering starts at 1 and its invocation count, delays and allErrors    *)
(* depend only on the outcomes of its own operation: two calls with the    *)
(* same context, outcomes and jitter draws are in the same state.          *)
C14_FreshStatePerCall ==
  /\ \A id \in Begun : OwnsItsState(calls[id])
  /\ \A a, b \in Begun :
       ( /\ calls[a].context = calls[b].context
         /\ calls[a].outcomes = calls[b].outcomes
         /\ calls[a].timerCalls = calls[b].timerCalls
         /\ calls[a].pc = calls[b].pc )
       => calls[a] = calls[b]

\* One call has been rejected after three failures; the other, begun before
\* or after, stands at its first attempt with nothing recorded.
C14_Witness ==
  /\ calls[1].pc = "rejected"
  /\ calls[1].invocations = 3
  /\ Len(calls[1].state.errors) = 3
  /\ calls[2].pc = "op"
  /\ calls[2].invocations = 1
  /\ calls[2].state = [attempt |-> 1, totalDelay |-> 0, errors |-> << >>]

----------------------------------------------------------------------------
\* The classifications wrapError made of a value that is no Error object.
OfNonError ==
  { i \in ByWrapError : ~InstanceOfError(classified[i].error) }

\* What the spec says String(value) is, for the values of the model.
Stringified(v) ==
  CASE v = Undefined -> "undefined"
    [] v = Null -> "null"
    [] v = NumberValue(500) -> "500"
    [] v = NumberValue(123) -> "123"
    [] v = NumberValue(0) -> "0"
    [] v.kind = "value" /\ v.type = "string" -> v.string
    [] OTHER -> "[object Object]"

(* C21 as stated: classifying a value that is not error-shaped (string,    *)
(* number, plain object, null, undefined) yields an error with message     *)
(* "Unknown error occurred: " + the stringified value, no cause attached,  *)
(* and retryable = false.                                                  *)
C21_NonErrorNotRetryable ==
  \A i \in OfNonError :
    /\ classified[i].result.message
         = "Unknown error occurred: " \o Stringified(classified[i].error)
    /\ classified[i].result.cause = Undefined
    /\ ~classified[i].result.retryable

(* C21 amended: wrapError of a value that is no Error object yields an     *)
(* EmailSendError with message "Unknown error occurred: " + the            *)
(* stringified value, no cause attached, the context argument as context,  *)
(* and the retryable flag of its class, which is true.                     *)
C21_NonErrorIsSendFailure ==
  \A i \in OfNonError :
    /\ classified[i].result.kind = "EmailError"
    /\ classified[i].result.name = "EmailSendError"
    /\ classified[i].result.code = "EMAIL_SEND_ERROR"
    /\ classified[i].result.message
         = "Unknown error occurred: " \o Stringified(classified[i].error)
    /\ classified[i].result.cause = Undefined
    /\ classified[i].result.context = classified[i].context
    /\ classified[i].result.retryable

\* null has been wrapped.
C21_Witness ==
  /\ ByWrapError = {1}
  /\ failure = Null
  /\ classified[1].result.message = "Unknown error occurred: null"
  /\ classified[1].result.retryable

----------------------------------------------------------------------------
\* The transient signatures of the spec, lower-cased.
Signatures ==
  { "etimedout", "econnreset", "enotfound", "econnrefused", "timeout",
    "network" }

\* The value is an object with a string message that holds, whatever the
\* case, one of the signatures.
HasTransientMessage(v) ==
  \/ /\ v.kind \in {"Error", "EmailError"}
     /\ \E sig \in Signatures : includes(toLowerCase(v.message), sig)
  \/ /\ v.kind = "value" /\ v.type = "object"
     /\ "message" \in DOMAIN v.props
     /\ v.props.message.type = "string"
     /\ \E sig \in Signatures :
          includes(toLowerCase(v.props.message.string), sig)

(* C22: isRetryableError(x) equals x.retryable when x is a classified      *)
(* error, whatever its message; otherwise it is true exactly when x is an  *)
(* object with a string message containing, case-insensitively, one of     *)
(* ETIMEDOUT, ECONNRESET, ENOTFOUND, ECONNREFUSED, timeout, network; it is *)
(* false for strings, numbers, null, undefined and message-less objects.   *)
C22_IsRetryableError ==
  isRetryable # None =>
    /\ isRetryable.kind = "boolean"
    /\ InstanceOfEmailError(failure) => isRetryable.value = failure.retryable
    /\ ~InstanceOfEmailError(failure) =>
         isRetryable.value = HasTransientMessage(failure)
    /\ ( \/ failure \in { Null, Undefined }
         \/ failure.kind = "value" /\ failure.type \in {"string", "number"}
         \/ failure.kind = "value" /\ failure.type = "object"
              /\ "message" \notin DOMAIN failure.props )
       => ~isRetryable.value

\* The predicate has said no of a classified error whose message holds a
\* transient signature.
C22_Witness ==
  /\ isRetryable # None
  /\ failure = RenderTimeout
  /\ HasTransientMessage(failure)
  /\ ~isRetryable.value

----------------------------------------------------------------------------
\* The caught failure is a raw Error of which both the predicate and
\* wrapError have been asked.
RawJudgedAndWrapped ==
  /\ failure.kind = "Error"
  /\ isRetryable # None
  /\ 1 \in ByWrapError

(* C26 as stated: for every raw (unclassified) Error e the retry predicate *)
(* agrees with the classifier: isRetryableError(e) equals                  *)
(* wrapError(e).retryable.                                                 *)
C26_PredicateAgreesWithClassifier ==
  RawJudgedAndWrapped => isRetryable.value = classified[1].result.retryable

(* C26 amended: for a raw Error e the predicate and the classifier look at *)
(* different keywords: isRetryableError(e) is true exactly when the        *)
(* message holds a transient signature, wrapError(e).retryable is true     *)
(* exactly when the lower-cased message does not hold "auth"; they agree   *)
(* exactly when one of the two holds and not the other. The executor,      *)
(* which asks the predicate, does not retry a raw failure without a        *)
(* transient signature although its classification is retryable.           *)
C26_PredicateAndClassifierDiffer ==
  RawJudgedAndWrapped =>
    LET auth == includes(toLowerCase(failure.message), "auth")
    IN  /\ isRetryable.value = HasTransientMessage(failure)
        /\ classified[1].result.retryable = ~auth
        /\ (isRetryable.value = classified[1].result.retryable)
             = (HasTransientMessage(failure) = ~auth)

\* "Login failed with auth timeout": retryable for the predicate, an
\* authentication error for the classifier.
C26_Witness ==
  /\ RawJudgedAndWrapped
  /\ failure = NewError("Login failed with auth timeout")
  /\ isRetryable.value
  /\ ~classified[1].result.retryable

----------------------------------------------------------------------------
\* The call has begun and has not settled.
InFlight == pc \in {"op", "sleep"}

(* C24: every execute call settles, given that each invocation settles and *)
(* the timer fires, after at most maxAttempts invocations of the           *)
(* operation; it sleeps exactly once between consecutive invocations and   *)
(* never after its last one, so sleeps = invocations - 1; with             *)
(* maxAttempts = 1 a retryable failure causes one invocation and no timer  *)
(* call.                                                                   *)
C24_SettlesWithinMaxAttempts ==
  /\ InFlight ~> Settled
  /\ [](ValidPolicy =>
          /\ invocations <= config.maxAttempts
          /\ Len(timerCalls) <= invocations
          /\ pc = "op" => Len(timerCalls) = invocations - 1
          /\ Settled => Len(timerCalls) = invocations - 1
          /\ (Settled /\ config.maxAttempts = 1) =>
               invocations = 1 /\ timerCalls = << >>)

\* A retryable failure has ended a call of one attempt.
C24_Witness ==
  /\ pc = "rejected"
  /\ config.maxAttempts = 1
  /\ invocations = 1
  /\ FailedRetryableAsWrapped(1)
  /\ timerCalls = << >>

----------------------------------------------------------------------------
\* The executor will retry, or has retried, after attempt k.
Retried(k) == k < invocations \/ (k = invocations /\ pc = "sleep")

\* The lines attempt k is to log, each with the attempt number it is to
\* carry under its key: the debug line, the warning of a failure and the
\* debug line of the wait, or the info line of a recovery.
RECURSIVE LinesOfAttempts(_)
LinesOfAttempts(k) ==
  IF k = 0 THEN << >>
  ELSE LinesOfAttempts(k - 1)
         \o << [level |-> "debug", message |-> "Executing operation",
                key |-> "attempt", value |-> k] >>
         \o ( IF k > Len(outcomes) THEN << >>
              ELSE IF outcomes[k].ok
              THEN IF k > 1
                   THEN << [level |-> "info",
                            message |-> "Operation succeeded after retry",
                            key |-> "attempt", value |-> k] >>
                   ELSE << >>
              ELSE << [level |-> "warn", message |-> "Operation failed",
                       key |-> "attempt", value |-> k] >>
                     \o ( IF Retried(k)
                          THEN << [level |-> "debug",
                                   message |-> "Waiting before retry",
                                   key |-> "nextAttempt", value |-> k + 1] >>
                          ELSE << >> ) )

\* The log is the lines of the attempts made, in attempt order; every
\* warning says whether the executor retries; the keys of the caller's
\* context are in every line. Logged says what a key of a line holds.
LogFollowsAttempts(Logged(_, _, _)) ==
  LET lines == LinesOfAttempts(invocations)
  IN  /\ Len(log) = Len(lines)
      /\ \A i \in 1..Len(log) :
           /\ log[i].level = lines[i].level
           /\ log[i].message = lines[i].message
           /\ Logged(i, lines[i].key, lines[i].value)
           /\ log[i].message = "Operation failed" =>
                log[i].meta.willRetry = Retried(lines[i].value)
           /\ \A key \in DOMAIN context :
                key \in DOMAIN log[i].meta /\ log[i].meta[key] = context[key]

(* C25 as stated: the log lines of one execute call follow attempt order:  *)
(* for each attempt k a debug 'Executing operation' (attempt k) comes      *)
(* first; a failed attempt is followed by exactly one warn 'Operation      *)
(* failed' (attempt k, willRetry true exactly when another invocation      *)
(* follows) and, when retrying, by a debug 'Waiting before retry'          *)
(* (nextAttempt k+1) before the debug line of attempt k+1; the caller's    *)
(* context keys are merged into every line.                                *)
C25_LogFollowsAttemptOrder == LogFollowsAttempts(LoggedByExecutor)

(* C25 amended: as above, but a line carries attempt k, or nextAttempt     *)
(* k+1, only if the caller's context has no key of that name: the context  *)
(* is spread last into every line and its value replaces the executor's.   *)
C25_LogFollowsAttemptOrderUnlessCallerKey ==
  LogFollowsAttempts(LoggedUnlessCallerKey)

\* Two failures, the second final, of a call with a context: five lines.
C25_Witness ==
  /\ pc = "rejected"
  /\ invocations = 2
  /\ context = [operation |-> "send-email"]
  /\ Len(log) = 5
  /\ log[4].message = "Executing operation" /\ log[4].meta.attempt = 2
  /\ log[5].message = "Operation failed" /\ ~log[5].meta.willRetry

----------------------------------------------------------------------------
\* The call was rejected by the throw after the loop: not by the throw of
\* the catch block, which follows a warning that says willRetry = false.
FellThrough ==
  /\ pc = "rejected"
  /\ \/ log = << >>
     \/ log[Len(log)].message # "Operation failed"
     \/ log[Len(log)].meta.willRetry

----------------------------------------------------------------------------
(* C23 *)

\* The call of the public method has rejected.
MethodRejected == service.pc = "rejected"

----------------------------------------------------------------------------
(* C27 *)

\* The service and the transport both run under the smtp preset.
DefaultSmtpPolicy == service.config.retryConfig.smtp = Undefined

\* C27: under the default smtp policy one sendTemplateEmail or
\* sendCustomEmail invokes transporter.sendMail at most 3 times.
C27_AtMostThreeSends ==
  (DefaultSmtpPolicy /\ Sends(service.method)) => service.sendMailCalls <= 3

\* What the code does: the three attempts of the service's execute each
\* start an execute of the transport, of three attempts of its own.
C27_AtMostNineSends ==
  /\ service.sendMailCalls <= 9
  /\ service.send.invocations <= 3
  /\ service.transport.invocations <= 3

\* One send has invoked transporter.sendMail nine times.
C27_NineSends ==
  /\ DefaultSmtpPolicy
  /\ service.method = "sendTemplateEmail"
  /\ service.sendMailCalls = 9
  /\ MethodRejected

----------------------------------------------------------------------------
(* C28 *)

\* s begins with prefix.
StartsWith(s, prefix) ==
  Len(s) >= Len(prefix) /\ SubSeq(s, 1, Len(prefix)) = prefix

\* The "Operation failed" lines of the render's execute.
RenderWarnings ==
  { i \in 1..Len(service.render.log) :
      service.render.log[i].message = "Operation failed" }

----------------------------------------------------------------------------
(* C30 *)

\* C30: on an instance whose constructor started the auto-initialization,
\* and on which no registration failed, the template system is initialized
\* at most once, also by a call made right after the construction.
C30_InitializedAtMostOnce ==
  (service.config.autoInitializeTemplates /\ service.initFailures = 0) =>
    service.initializations <= 1

\* What the code does: the call made before the constructor's continuation
\* has set the flag initializes once more, and no call a third time.
C30_InitializedAtMostTwice == service.initializations <= 2

\* The registrations ran twice, both times with success, for the
\* constructor and for a sendTemplateEmail called before the flag was set.
C30_InitializedTwice ==
  /\ service.config.autoInitializeTemplates
  /\ service.initFailures = 0
  /\ service.method = "sendTemplateEmail"
  /\ service.initializations = 2
  /\ service.initialized

====
